---- MODULE Spec2Model ----
(***************************************************************************)
(* Model of the scenario execution engine (scenario.Run) of scenario-go    *)
(* together with the testing agent's response handling                     *)
(* (testingAgent.GenerateNextMessage).  One Run is a sequential loop whose  *)
(* only suspension points are the calls to the two collaborators; every    *)
(* action below is one such call returning plus the code that follows it   *)
(* up to the next call or to the return of Run.                            *)
(***************************************************************************)
EXTENDS Integers, Sequences, FiniteSets, TLC

(***************************************************************************)
(* Bounds of the model.                                                    *)
(***************************************************************************)
\* largest maxTurns a scenario is configured with (smallest is -1)
MaxTurnsBound == 2
\* a scenario is run again only while its conversation has at most this
\* many messages
MaxCarry == 1
\* a collaborator call takes between 1 and MaxCallNSec nanoseconds
MaxCallNSec == 1

(***************************************************************************)
(* Program constants.                                                      *)
(***************************************************************************)
MessageRoleUser == "user"
MessageRoleAssistant == "assistant"
MessageRoleSystem == "system"
MessageRoleDeveloper == "developer"
ToolTypeFunction == "function"

(***************************************************************************)
(* Go values.  A pointer or an error is a sequence of length at most one   *)
(* resp. a chain: <<>> is nil.  An error is the sequence of the Error()    *)
(* texts along its Unwrap chain, outermost first.                          *)
(***************************************************************************)
Nil == <<>>

ErrorsNew(text) == <<text>>

\* fmt.Errorf(prefix + "%w", err)
ErrorfNoWrap(prefix, err) == <<prefix \o Head(err)>>
ErrorfW(prefix, err) == <<prefix \o Head(err)>> \o err

\* errors.Is(err, target): target is err or is reached by unwrapping err
ErrorsIs(err, target) ==
    /\ target # Nil
    /\ \E i \in 1..Len(err) : SubSeq(err, i, Len(err)) = target

Message(role, content) == [Role |-> role, Content |-> content, ToolCalls |-> <<>>]

\* the zero value of Result with the given Success
ResultLiteral(success) ==
    [Success |-> success, Conversation |-> <<>>, Reasoning |-> "",
     MetCriteria |-> <<>>, UnmetCriteria |-> <<>>, TriggeredFailures |-> <<>>,
     TotalDurationNSec |-> 0, AgentDurationNSec |-> 0]

NewSuccessPartialResult(conversation, reasoning, metCriteria) ==
    [ResultLiteral(TRUE) EXCEPT !.Conversation = conversation,
                                !.Reasoning = reasoning,
                                !.MetCriteria = metCriteria]

NewFailurePartialResult(conversation, reasoning, metCriteria, unmetCriteria, triggeredFailures) ==
    [ResultLiteral(FALSE) EXCEPT !.Conversation = conversation,
                                 !.Reasoning = reasoning,
                                 !.MetCriteria = metCriteria,
                                 !.UnmetCriteria = unmetCriteria,
                                 !.TriggeredFailures = triggeredFailures]

NewInconclusivePartialResult(conversation, reasoning, metCriteria, unmetCriteria, triggeredFailures) ==
    [ResultLiteral(FALSE) EXCEPT !.Conversation = conversation,
                                 !.Reasoning = reasoning,
                                 !.MetCriteria = metCriteria,
                                 !.UnmetCriteria = unmetCriteria,
                                 !.TriggeredFailures = triggeredFailures]

(***************************************************************************)
(* Tool-call arguments (map[string]any).  A value of type any is a tagged  *)
(* record: tag says which Go type it holds ("missing" when the key is not  *)
(* in the map), s holds a string, items the elements of a slice (each with *)
(* a flag saying whether it is a string).                                  *)
(***************************************************************************)
StringValue(text) == [tag |-> "string", s |-> text]
NumberValue == [tag |-> "number", s |-> ""]
MissingValue == [tag |-> "missing", s |-> ""]

StrItem(text) == [isString |-> TRUE, s |-> text]
NonStrItem == [isString |-> FALSE, s |-> ""]
AnySlice(items) == [tag |-> "[]any", items |-> items]
StringSlice(items) == [tag |-> "[]string", items |-> items]
NilArray == [tag |-> "nil", items |-> <<>>]
MissingArray == [tag |-> "missing", items |-> <<>>]
OtherArray == [tag |-> "number", items |-> <<>>]

DetailsMap(met, unmet, triggered) ==
    [tag |-> "map", met_criteria |-> met, unmet_criteria |-> unmet,
     triggered_failures |-> triggered]
DetailsNotMap ==
    [tag |-> "string", met_criteria |-> MissingArray, unmet_criteria |-> MissingArray,
     triggered_failures |-> MissingArray]

\* the strings of a slice whose items are all strings
RECURSIVE ItemStrings(_)
ItemStrings(items) ==
    IF items = <<>> THEN <<>>
    ELSE <<Head(items).s>> \o ItemStrings(Tail(items))

\* index (from 0) of the first item that is not a string, or -1
FirstNonString(items) ==
    IF \A i \in 1..Len(items) : items[i].isString THEN -1
    ELSE (CHOOSE i \in 1..Len(items) :
            /\ ~items[i].isString
            /\ \A j \in 1..(i - 1) : items[j].isString) - 1

\* extractStringArray as it would be if every slice were taken as it is
extractStringArrayUnchecked(val, key) ==
    IF val.tag = "missing"
    THEN [strs |-> <<>>, err |-> ErrorsNew(key \o " not found")]
    ELSE IF val.tag \in {"[]any", "[]string"}
    THEN [strs |-> ItemStrings(val.items), err |-> Nil]
    ELSE [strs |-> <<>>, err |-> Nil]

\* extractStringArray(data, key): val is data[key]; returns [strs, err]
extractStringArray(val, key) ==
    IF val.tag = "missing"
    THEN [strs |-> <<>>, err |-> ErrorsNew(key \o " not found")]
    ELSE IF val.tag = "[]any"
    THEN IF FirstNonString(val.items) = -1
         THEN [strs |-> ItemStrings(val.items), err |-> Nil]
         ELSE [strs |-> <<>>,
               err |-> ErrorsNew("item at index " \o ToString(FirstNonString(val.items))
                                 \o " in " \o key \o " is not a string")]
    ELSE IF val.tag = "[]string"
    THEN [strs |-> ItemStrings(val.items), err |-> Nil]
    ELSE IF val.tag = "nil"
    THEN [strs |-> <<>>, err |-> Nil]
    ELSE [strs |-> <<>>,
          err |-> ErrorsNew(key \o " is not a valid string array, []any, or nil")]

\* what extractFinishTestParams returns when it fails with the given error
ParamsError(verdict, reasoning, met, unmet, err) ==
    [verdict |-> verdict, reasoning |-> reasoning, metCriteria |-> met,
     unmetCriteria |-> unmet, triggeredFailures |-> <<>>, err |-> err]

\* extractFinishTestParams as it would be without the type assertions
extractFinishTestParamsUnchecked(toolCall) ==
    [verdict |-> toolCall.Arguments.verdict.s,
     reasoning |-> toolCall.Arguments.reasoning.s,
     metCriteria |-> <<>>, unmetCriteria |-> <<>>, triggeredFailures |-> <<>>,
     err |-> Nil]

\* extractFinishTestParams(toolCall)
extractFinishTestParams(toolCall) ==
    LET args == toolCall.Arguments
        met == extractStringArray(args.details.met_criteria, "met_criteria")
        unmet == extractStringArray(args.details.unmet_criteria, "unmet_criteria")
        trig == extractStringArray(args.details.triggered_failures, "triggered_failures")
    IN  IF args.verdict.tag # "string"
        THEN ParamsError("", "", <<>>, <<>>, ErrorsNew("verdict is not a string"))
        ELSE IF args.reasoning.tag # "string"
        THEN ParamsError(args.verdict.s, "", <<>>, <<>>, ErrorsNew("reasoning is not a string"))
        ELSE IF args.details.tag # "map"
        THEN ParamsError(args.verdict.s, args.reasoning.s, <<>>, <<>>,
                         ErrorsNew("details is not a map"))
        ELSE IF met.err # Nil
        THEN ParamsError(args.verdict.s, args.reasoning.s, <<>>, <<>>, met.err)
        ELSE IF unmet.err # Nil
        THEN ParamsError(args.verdict.s, args.reasoning.s, met.strs, <<>>, unmet.err)
        ELSE IF trig.err # Nil
        THEN ParamsError(args.verdict.s, args.reasoning.s, met.strs, unmet.strs, trig.err)
        ELSE [verdict |-> args.verdict.s, reasoning |-> args.reasoning.s,
              metCriteria |-> met.strs, unmetCriteria |-> unmet.strs,
              triggeredFailures |-> trig.strs, err |-> Nil]

(***************************************************************************)
(* The completion provider's answer: an LLMCompletionResponse and an error.*)
(***************************************************************************)
ToolCall(type, name, args) == [Type |-> type, Name |-> name, Arguments |-> args]
Choice(content, toolCalls) == [Content |-> content, ToolCalls |-> toolCalls]
Completion(choices) == [Choices |-> choices, err |-> Nil]
CompletionError(err) == [Choices |-> <<>>, err |-> err]

\* a nil *LLMCompletionResponse that comes with a nil error: there are no
\* Choices to read
NilCompletion == [nilResponse |-> TRUE, err |-> Nil]
IsNilCompletion(resp) == "Choices" \notin DOMAIN resp

\* a tool call whose Function pointer is nil: there is no Name and there are
\* no Arguments to read
ToolCallNilFunction(type) == [Type |-> type, Function |-> Nil]
HasNilFunction(toolCall) == "Name" \notin DOMAIN toolCall

\* what GenerateNextMessage returns: a string pointer, a Result pointer, an error
GenReturn(msg, result, err) == [msg |-> msg, result |-> result, err |-> err]

\* the call does not return: a nil pointer was dereferenced and the
\* goroutine panics
GenPanic == [panic |-> "runtime error: invalid memory address or nil pointer dereference"]

\* VerdictResult as it would be if only "failure" gave a failed Result
VerdictResultOnlyFailureFails(conversation, p) ==
    IF p.verdict = "failure"
    THEN NewFailurePartialResult(conversation, p.reasoning, p.metCriteria,
                                 p.unmetCriteria, p.triggeredFailures)
    ELSE NewSuccessPartialResult(conversation, p.reasoning, p.metCriteria)

\* VerdictResult as it would be if a successful Result carried the unmet
\* criteria and the triggered failures too
VerdictResultSuccessCarriesAll(conversation, p) ==
    IF p.verdict = "success"
    THEN [NewFailurePartialResult(conversation, p.reasoning, p.metCriteria,
                                  p.unmetCriteria, p.triggeredFailures)
             EXCEPT !.Success = TRUE]
    ELSE NewInconclusivePartialResult(conversation, p.reasoning, p.metCriteria,
                                      p.unmetCriteria, p.triggeredFailures)

\* the switch on the verdict of a well-formed finish_test call
VerdictResult(conversation, p) ==
    IF p.verdict = "success"
    THEN NewSuccessPartialResult(conversation, p.reasoning, p.metCriteria)
    ELSE IF p.verdict = "failure"
    THEN NewFailurePartialResult(conversation, p.reasoning, p.metCriteria,
                                 p.unmetCriteria, p.triggeredFailures)
    ELSE NewInconclusivePartialResult(conversation, p.reasoning, p.metCriteria,
                                      p.unmetCriteria, p.triggeredFailures)

\* TextReturn as it would be if a Result came along with the text
TextReturnWithResult(choice) ==
    IF choice.Content = ""
    THEN GenReturn(Nil, Nil, ErrorsNew("no content returned in choice"))
    ELSE GenReturn(<<choice.Content>>, <<ResultLiteral(FALSE)>>, Nil)

\* TextReturn as it would be if an empty text were a message like any other
TextReturnEmptyAllowed(choice) == GenReturn(<<choice.Content>>, Nil, Nil)

\* the text handling after the tool-call branch
TextReturn(choice) ==
    IF choice.Content = ""
    THEN GenReturn(Nil, Nil, ErrorsNew("no content returned in choice"))
    ELSE GenReturn(<<choice.Content>>, Nil, Nil)

\* GenerateNextMessage as it would be if an answer without choices were
\* handled like a choice without content
GenerateNextMessageNoChoicesAsNoContent(conversation, firstMessage, lastMessage, resp) ==
    IF resp.err # Nil
    THEN GenReturn(Nil, Nil, ErrorfW("failed to generate llm completion: ", resp.err))
    ELSE IF IsNilCompletion(resp)
    THEN GenPanic
    ELSE IF Len(resp.Choices) = 0
    THEN TextReturn(Choice("", <<>>))
    ELSE TextReturn(resp.Choices[1])

\* GenerateNextMessage as it would be without the check of the tool call's
\* type
GenerateNextMessageAnyToolType(conversation, firstMessage, lastMessage, resp) ==
    IF resp.err # Nil
    THEN GenReturn(Nil, Nil, ErrorfW("failed to generate llm completion: ", resp.err))
    ELSE IF IsNilCompletion(resp)
    THEN GenPanic
    ELSE IF Len(resp.Choices) = 0
    THEN GenReturn(Nil, Nil, ErrorsNew("no choices returned"))
    ELSE LET choice == resp.Choices[1]
             toolCall == choice.ToolCalls[1]
             p == extractFinishTestParams(toolCall)
         IN  IF Len(choice.ToolCalls) > 0 /\ HasNilFunction(toolCall)
             THEN GenPanic
             ELSE IF Len(choice.ToolCalls) > 0 /\ toolCall.Name = "finish_test"
             THEN IF p.err # Nil
                  THEN GenReturn(Nil, Nil,
                           ErrorfW("failed to extract finish_test parameters: ", p.err))
                  ELSE GenReturn(Nil, <<VerdictResult(conversation, p)>>, Nil)
             ELSE TextReturn(choice)

\* GenerateNextMessage as it would be if a text in the choice came before the
\* tool call
GenerateNextMessageTextFirst(conversation, firstMessage, lastMessage, resp) ==
    IF resp.err # Nil
    THEN GenReturn(Nil, Nil, ErrorfW("failed to generate llm completion: ", resp.err))
    ELSE IF IsNilCompletion(resp)
    THEN GenPanic
    ELSE IF Len(resp.Choices) = 0
    THEN GenReturn(Nil, Nil, ErrorsNew("no choices returned"))
    ELSE LET choice == resp.Choices[1]
             toolCall == choice.ToolCalls[1]
             p == extractFinishTestParams(toolCall)
         IN  IF choice.Content # ""
             THEN TextReturn(choice)
             ELSE IF Len(choice.ToolCalls) > 0
             THEN IF toolCall.Type # ToolTypeFunction
                  THEN GenReturn(Nil, Nil, ErrorsNew("tool call is not a function"))
                  ELSE IF HasNilFunction(toolCall)
                  THEN GenPanic
                  ELSE IF toolCall.Name = "finish_test"
                  THEN IF p.err # Nil
                       THEN GenReturn(Nil, Nil,
                                ErrorfW("failed to extract finish_test parameters: ", p.err))
                       ELSE GenReturn(Nil, <<VerdictResult(conversation, p)>>, Nil)
                  ELSE TextReturn(choice)
             ELSE TextReturn(choice)

\* GenerateNextMessage as it would be if every function call were read as a
\* call of finish_test
GenerateNextMessageAnyFunctionName(conversation, firstMessage, lastMessage, resp) ==
    IF resp.err # Nil
    THEN GenReturn(Nil, Nil, ErrorfW("failed to generate llm completion: ", resp.err))
    ELSE IF IsNilCompletion(resp)
    THEN GenPanic
    ELSE IF Len(resp.Choices) = 0
    THEN GenReturn(Nil, Nil, ErrorsNew("no choices returned"))
    ELSE LET choice == resp.Choices[1]
             toolCall == choice.ToolCalls[1]
             p == extractFinishTestParams(toolCall)
         IN  IF Len(choice.ToolCalls) > 0
             THEN IF toolCall.Type # ToolTypeFunction
                  THEN GenReturn(Nil, Nil, ErrorsNew("tool call is not a function"))
                  ELSE IF HasNilFunction(toolCall)
                  THEN GenPanic
                  ELSE IF p.err # Nil
                  THEN GenReturn(Nil, Nil,
                           ErrorfW("failed to extract finish_test parameters: ", p.err))
                  ELSE GenReturn(Nil, <<VerdictResult(conversation, p)>>, Nil)
             ELSE TextReturn(choice)

\* testingAgent.GenerateNextMessage, from the completion provider's answer on
GenerateNextMessage(conversation, firstMessage, lastMessage, resp) ==
    IF resp.err # Nil
    THEN GenReturn(Nil, Nil, ErrorfW("failed to generate llm completion: ", resp.err))
    ELSE IF IsNilCompletion(resp)
    THEN GenPanic
    ELSE IF Len(resp.Choices) = 0
    THEN GenReturn(Nil, Nil, ErrorsNew("no choices returned"))
    ELSE LET choice == resp.Choices[1]
             toolCall == choice.ToolCalls[1]
             p == extractFinishTestParams(toolCall)
         IN  IF Len(choice.ToolCalls) > 0
             THEN IF toolCall.Type # ToolTypeFunction
                  THEN GenReturn(Nil, Nil, ErrorsNew("tool call is not a function"))
                  ELSE IF HasNilFunction(toolCall)
                  THEN GenPanic
                  ELSE IF toolCall.Name = "finish_test"
                  THEN IF p.err # Nil
                       THEN GenReturn(Nil, Nil,
                                ErrorfW("failed to extract finish_test parameters: ", p.err))
                       ELSE GenReturn(Nil, <<VerdictResult(conversation, p)>>, Nil)
                  ELSE TextReturn(choice)
             ELSE TextReturn(choice)

(***************************************************************************)
(* The answers the collaborators give in this model.                       *)
(***************************************************************************)
FinishArgs(verdict) ==
    [verdict |-> verdict, reasoning |-> StringValue("because"),
     details |-> DetailsMap(AnySlice(<<StrItem("c1")>>),
                            StringSlice(<<StrItem("c2")>>),
                            AnySlice(<<StrItem("f1")>>))]

FinishTestCall(verdict) == ToolCall(ToolTypeFunction, "finish_test", FinishArgs(verdict))

\* the text the simulated user says in the n-th testing-agent call of a Run
UserText(n) == "u" \o ToString(n)

\* the answers of the completion provider to the n-th call of a Run
LLMResponses(n) ==
    {CompletionError(ErrorsNew("backend unavailable")),
     Completion(<<>>),
     Completion(<<Choice(UserText(n), <<>>)>>),
     Completion(<<Choice("", <<>>)>>),
     Completion(<<Choice("bye", <<ToolCall("custom", "finish_test",
                                           FinishArgs(StringValue("success")))>>)>>),
     Completion(<<Choice("bye", <<FinishTestCall(NumberValue)>>)>>),
     Completion(<<Choice(UserText(n), <<ToolCall(ToolTypeFunction, "other",
                                                 FinishArgs(StringValue("success")))>>)>>)}
    \cup {Completion(<<Choice("", <<FinishTestCall(StringValue(v))>>)>>) :
             v \in {"success", "failure", "inconclusive"}}

\* what Agent.Run returns: the messages and an error
AgentReturn(msgs, err) == [msgs |-> msgs, err |-> err]

AgentReplies ==
    LET a1 == Message(MessageRoleAssistant, "a1")
        a2 == Message(MessageRoleAssistant, "a2")
        sys == Message(MessageRoleSystem, "prompt")
        usr == Message(MessageRoleUser, "echo")
    IN  {AgentReturn(<<>>, ErrorsNew("agent failed")),
         AgentReturn(<<>>, Nil),
         AgentReturn(<<a1>>, Nil),
         AgentReturn(<<a1, a2>>, Nil),
         AgentReturn(<<sys, a1>>, Nil),
         AgentReturn(<<usr, a1>>, Nil),
         AgentReturn(<<sys, usr, a1>>, Nil),
         AgentReturn(<<usr, sys>>, Nil),
         AgentReturn(<<sys>>, Nil),
         AgentReturn(<<usr>>, Nil),
         AgentReturn(<<sys, usr>>, Nil)}

CallNSec == 1..MaxCallNSec

(***************************************************************************)
(* One call of testingAgent.GenerateNextMessage on its own: the arguments  *)
(* it is given, the call it makes to the completion provider, and what it  *)
(* returns for the provider's answer.                                      *)
(***************************************************************************)
MaxGenConversation == 2

\* a message of the agent under test that carries tool calls
MessageWithToolCalls(role, content, toolCalls) ==
    [Role |-> role, Content |-> content, ToolCalls |-> toolCalls]

\* testingAgentSystemMessageTemplate executed with the parameters
SystemMessage(description, strategy, successCriteriaJSON, failureCriteriaJSON) ==
    "<role>You are pretending to be a user</role><scenario>" \o description
        \o "</scenario><strategy>" \o strategy
        \o "</strategy><success_criteria>" \o successCriteriaJSON
        \o "</success_criteria><failure_criteria>" \o failureCriteriaJSON
        \o "</failure_criteria>"

RenderedSystemMessage ==
    SystemMessage("Test description", "Test strategy", "[success1]", "[failure1]")

GreetingText == "Hello, how can I help you today?"

testingAgentFinishTestMessage ==
    "System: <finish_test>This is the last message, give your final verdict</finish_test>"

\* AssembledMessages as it would be if the cue were appended on every call
AssembledMessagesCueAlways(conversation, lastMessage) ==
    <<Message(MessageRoleSystem, RenderedSystemMessage),
      Message(MessageRoleAssistant, GreetingText)>>
        \o conversation
        \o <<Message(MessageRoleUser, testingAgentFinishTestMessage)>>

\* messages := {system prompt, greeting}; append(conversation...); the cue
AssembledMessages(conversation, lastMessage) ==
    <<Message(MessageRoleSystem, RenderedSystemMessage),
      Message(MessageRoleAssistant, GreetingText)>>
        \o conversation
        \o (IF lastMessage
            THEN <<Message(MessageRoleUser, testingAgentFinishTestMessage)>>
            ELSE <<>>)

\* the switch on message.Role
SwapRole(role) ==
    IF role = MessageRoleAssistant THEN MessageRoleUser
    ELSE IF role = MessageRoleUser THEN MessageRoleAssistant
    ELSE role

\* the body of the loop, run on the loop variable message: a message that
\* carries tool calls is skipped, any other gets its role switched
LoopBody(message) ==
    IF Len(message.ToolCalls) > 0 THEN message
    ELSE [message EXCEPT !.Role = SwapRole(@)]

\* for _, message := range messages: the loop variable is a copy of the
\* element, so the body's assignment changes the copy and the slice keeps
\* its elements
RangeByValue(messages) ==
    [k \in 1..Len(messages) |->
        LET message == LoopBody(messages[k])
        IN  IF message = messages[k] THEN message ELSE messages[k]]

\* ConversationAfterCall as it would be if the list sent shared its array
\* with the caller's slice and the loop wrote into it
ConversationAfterCallShared(conversation, lastMessage) ==
    [k \in 1..Len(conversation) |->
        LoopBody(AssembledMessages(conversation, lastMessage)[k + 2])]

\* the caller's slice once the call is over: append copies the elements of
\* conversation behind the two of the literal, whose array has no room for
\* them, and neither the cue nor the loop writes through conversation
ConversationAfterCall(conversation, lastMessage) ==
    LET messages == RangeByValue(AssembledMessages(conversation, lastMessage))
    IN  [k \in 1..Len(conversation) |->
            IF messages[k + 2] = conversation[k] THEN messages[k + 2] ELSE conversation[k]]

\* the one tool offered to the provider
FinishTestTool ==
    [Type |-> ToolTypeFunction, Name |-> "finish_test", Strict |-> TRUE,
     Required |-> <<"verdict", "reasoning", "details">>]

\* ToolChoice as it would be if the verdict were forced on every call
ToolChoiceAlways(lastMessage) == <<"required">>

\* toolChoice := ptr.Ptr("required"); if !lastMessage { toolChoice = nil }
ToolChoice(lastMessage) == IF ~lastMessage THEN Nil ELSE <<"required">>

\* the arguments of t.llmCompletion.Completion
ProviderCall(messages, tools, toolChoice) ==
    [messages |-> messages, tools |-> tools, toolChoice |-> toolChoice]

NoProviderCall == ProviderCall(<<>>, <<>>, Nil)

\* the Completion call that GenerateNextMessage makes
CompletionCall(conversation, firstMessage, lastMessage) ==
    ProviderCall(RangeByValue(AssembledMessages(conversation, lastMessage)),
                 <<FinishTestTool>>, ToolChoice(lastMessage))

\* the messages a conversation given to GenerateNextMessage is made of
GenMessages ==
    {Message(MessageRoleUser, "hi"),
     Message(MessageRoleAssistant, "hello"),
     Message(MessageRoleSystem, "note"),
     Message(MessageRoleDeveloper, "dev"),
     MessageWithToolCalls(MessageRoleAssistant, "looking up", <<"lookup">>),
     MessageWithToolCalls(MessageRoleUser, "calling", <<"call">>)}

GenConversations == UNION {[1..n -> GenMessages] : n \in 0..MaxGenConversation}

\* arguments of a finish_test call
FinishArgsWith(verdict, reasoning, details) ==
    [verdict |-> verdict, reasoning |-> reasoning, details |-> details]

DetailsMissing ==
    [tag |-> "missing", met_criteria |-> MissingArray, unmet_criteria |-> MissingArray,
     triggered_failures |-> MissingArray]

\* the shapes a criteria array arrives in
ArrayShapes ==
    {AnySlice(<<StrItem("x1"), StrItem("x2")>>),
     AnySlice(<<>>),
     AnySlice(<<StrItem("x1"), NonStrItem>>),
     AnySlice(<<NonStrItem>>),
     StringSlice(<<StrItem("y1")>>),
     NilArray,
     MissingArray,
     OtherArray}

\* finish_test arguments in which one part differs from the usual ones
VariedFinishArgs ==
    LET ok == AnySlice(<<StrItem("c1")>>)
        because == StringValue("because")
        failure == StringValue("failure")
    IN  {FinishArgsWith(failure, because, DetailsMap(a, ok, ok)) : a \in ArrayShapes}
        \cup {FinishArgsWith(failure, because, DetailsMap(ok, a, ok)) : a \in ArrayShapes}
        \cup {FinishArgsWith(failure, because, DetailsMap(ok, ok, a)) : a \in ArrayShapes}
        \cup {FinishArgsWith(v, because, DetailsMap(ok, ok, ok)) :
                 v \in {StringValue("maybe"), StringValue(""), MissingValue}}
        \cup {FinishArgsWith(failure, r, DetailsMap(ok, ok, ok)) :
                 r \in {NumberValue, MissingValue}}
        \cup {FinishArgsWith(failure, because, d) : d \in {DetailsNotMap, DetailsMissing}}

\* answers whose first tool call is not a function call
NonFunctionResponses ==
    {Completion(<<Choice(c, <<ToolCall("custom", n, FinishArgs(StringValue("success")))>>)>>) :
        c \in {"", "text"}, n \in {"finish_test", "other"}}

\* answers that hold a text next to a well-formed call of finish_test, and
\* answers whose first tool call is a call of another function
TextAndToolResponses ==
    {Completion(<<Choice("text", <<FinishTestCall(StringValue(v))>>)>>) :
        v \in {"success", "failure", "maybe"}}
        \cup {Completion(<<Choice(c, <<ToolCall(ToolTypeFunction, "other",
                                                FinishArgs(StringValue("success")))>>)>>) :
                 c \in {"", "text"}}

\* answers that the handling cannot read: no response at all with a nil
\* error, and a first tool call without its function
NilResponses ==
    {NilCompletion}
        \cup {Completion(<<Choice(c, <<ToolCallNilFunction(t)>>)>>) :
                 c \in {"", "text"}, t \in {ToolTypeFunction, "custom"}}

\* the answers of the completion provider to the call
GenResponses ==
    LLMResponses(1)
        \cup NonFunctionResponses
        \cup TextAndToolResponses
        \cup NilResponses
        \cup {Completion(<<Choice("", <<ToolCall(ToolTypeFunction, "finish_test", a)>>)>>) :
                 a \in VariedFinishArgs}

\* openai.UserMessage, AssistantMessage, SystemMessage, DeveloperMessage: the
\* role and the content of the message, its tool calls being left behind
OpenAIMessage(message) == [Role |-> message.Role, Content |-> message.Content]

\* openai.ChatCompletionToolParam of a function tool
OpenAITool(tool) ==
    [Type |-> tool.Type, Name |-> tool.Name, Strict |-> tool.Strict,
     Required |-> tool.Required]

\* the parameters that openAICompletion.Completion hands to
\* client.Chat.Completions.New for a call: the messages, the model and the
\* tools are set; toolChoice is read nowhere and ToolChoice stays unset
OpenAIParams(call) ==
    [Messages |-> [k \in 1..Len(call.messages) |-> OpenAIMessage(call.messages[k])],
     Tools |-> [k \in 1..Len(call.tools) |-> OpenAITool(call.tools[k])],
     ToolChoice |-> Nil]

NoOpenAIParams == OpenAIParams(NoProviderCall)

\* a call of GenerateNextMessage: its arguments, the answer of the provider,
\* the call made to the provider, the values returned, the caller's
\* conversation as it is after the call, the request that the OpenAI
\* provider makes of the call
GenCall(conv, first, last, called, resp, sent, out, after, request) ==
    [conversation |-> conv, firstMessage |-> first, lastMessage |-> last,
     called |-> called, resp |-> resp, sent |-> sent, out |-> out, after |-> after,
     request |-> request]

(***************************************************************************)
(* The options of NewScenario.  An option is told by the function that     *)
(* made it and by the argument it captured; applying it assigns one field  *)
(* of the scenario.                                                        *)
(***************************************************************************)
MaxOptions == 3

Option(kind, arg) == [kind |-> kind, arg |-> arg]

WithDescription(description) == Option("WithDescription", description)
WithStrategy(strategy) == Option("WithStrategy", strategy)
WithMaxTurns(turns) == Option("WithMaxTurns", turns)
WithAgent(agent) == Option("WithAgent", agent)
WithTestingAgent(testingAgent) == Option("WithTestingAgent", testingAgent)

\* WithSuccessCriteria as it would be if empty strings were left out
WithSuccessCriteriaNoEmpty(criteria) ==
    Option("WithSuccessCriteria", SelectSeq(criteria, LAMBDA c : c # ""))

WithSuccessCriteria(criteria) == Option("WithSuccessCriteria", criteria)
WithFailureCriteria(criteria) == Option("WithFailureCriteria", criteria)

\* the scenario struct as NewScenario allocates it
DefaultScenario ==
    [description |-> "",
     strategy |-> "Start with a first message and guide the conversation to play out the scenario.",
     agent |-> Nil,
     testingAgent |-> Nil,
     successCriteria |-> <<>>,
     failureCriteria |-> <<>>,
     maxTurns |-> 10]

\* ApplyOption as it would be if criteria options added to the list
ApplyOptionAppendingCriteria(opt, s) ==
    IF opt.kind = "WithDescription" THEN [s EXCEPT !.description = opt.arg]
    ELSE IF opt.kind = "WithStrategy" THEN [s EXCEPT !.strategy = opt.arg]
    ELSE IF opt.kind = "WithMaxTurns" THEN [s EXCEPT !.maxTurns = opt.arg]
    ELSE IF opt.kind = "WithAgent" THEN [s EXCEPT !.agent = opt.arg]
    ELSE IF opt.kind = "WithTestingAgent" THEN [s EXCEPT !.testingAgent = opt.arg]
    ELSE IF opt.kind = "WithSuccessCriteria"
    THEN [s EXCEPT !.successCriteria = @ \o opt.arg]
    ELSE [s EXCEPT !.failureCriteria = @ \o opt.arg]

\* opt(s): the assignment made by the function the option is
ApplyOption(opt, s) ==
    IF opt.kind = "WithDescription" THEN [s EXCEPT !.description = opt.arg]
    ELSE IF opt.kind = "WithStrategy" THEN [s EXCEPT !.strategy = opt.arg]
    ELSE IF opt.kind = "WithMaxTurns" THEN [s EXCEPT !.maxTurns = opt.arg]
    ELSE IF opt.kind = "WithAgent" THEN [s EXCEPT !.agent = opt.arg]
    ELSE IF opt.kind = "WithTestingAgent" THEN [s EXCEPT !.testingAgent = opt.arg]
    ELSE IF opt.kind = "WithSuccessCriteria" THEN [s EXCEPT !.successCriteria = opt.arg]
    ELSE [s EXCEPT !.failureCriteria = opt.arg]

\* for _, opt := range opts { opt(s) }
RECURSIVE ApplyOptions(_, _)
ApplyOptions(opts, s) ==
    IF opts = <<>> THEN s
    ELSE ApplyOptions(Tail(opts), ApplyOption(Head(opts), s))

NewScenario(opts) == ApplyOptions(opts, DefaultScenario)

\* the criteria lists given to the options
CriteriaLists == {<<>>, <<"a", "a", "b">>, <<"", "b">>}

\* the options a caller passes to NewScenario
OptionChoices ==
    {WithDescription("d1"), WithDescription("d2"),
     WithStrategy("s1"), WithStrategy("s2"),
     WithMaxTurns(5), WithMaxTurns(-1),
     WithAgent(<<"agentA">>), WithAgent(<<"agentB">>),
     WithTestingAgent(<<"testerA">>), WithTestingAgent(<<"testerB">>)}
        \cup {WithSuccessCriteria(c) : c \in CriteriaLists}
        \cup {WithFailureCriteria(c) : c \in CriteriaLists}

\* the criteria of the scenarios that Run is entered on
Criteria(success, failure) == [success |-> success, failure |-> failure]

CriteriaChoices ==
    {Criteria(<<>>, <<>>), Criteria(<<"a", "a", "b">>, <<"", "f", "f">>)}

(***************************************************************************)
(* The scenario and the state of its Run.                                  *)
(***************************************************************************)
VARIABLES
    agentSet,          \* s.agent != nil
    maxTurns,          \* s.maxTurns
    conversation,      \* s.conversation
    pc,                \* where Run is: "start", "agent", "testing", "done"
    iteration,         \* the loop variable of Run
    currentMessage,    \* the text the next turn sends (a pointer)
    elapsed,           \* time.Since(testStart)
    agentDuration,     \* the local agentDuration of Run
    ret,               \* what Run returned: [result, err]
    lastOut,           \* what the last testing-agent call of this Run returned
    lastReply,         \* what the last agent-under-test call of this Run returned
    agentCalls,        \* calls of s.agent.Run made by this Run
    agentInput,        \* the message given to the last call of s.agent.Run
    successCriteria,   \* s.successCriteria
    failureCriteria,   \* s.failureCriteria
    lastCriteria,      \* the criteria given to the last testing-agent call
    built,             \* NewScenario: the scenario under construction
    applied,           \* NewScenario: the options applied so far
    testingCalls,      \* calls of GenerateNextMessage made by this Run
    lastCall,          \* the collaborator that returned last: "testing", "agent", "none"
    lastArgs,          \* firstMessage and lastMessage of the last testing-agent call
    kept,              \* per turn of this Run, how many agent messages were recorded
    startConversation, \* s.conversation when this Run was entered
    ctxCancelled,      \* the ctx given to this Run has been cancelled
    observesCtx,       \* the collaborators return the ctx error once ctx is cancelled
    callsAfterCancel,  \* collaborator calls of this Run that returned after the cancel
    scenarios,         \* concurrent runs: the scenario objects (maxTurns, conversation)
    goroutines,        \* concurrent runs: per scenario, the locals of its Run
    gen                \* one GenerateNextMessage call: its arguments, what it
                       \* passed to the completion provider, what it returned

vars == <<agentSet, maxTurns, conversation, pc, iteration, currentMessage, elapsed,
          agentDuration, ret, lastOut, lastReply, agentCalls, testingCalls,
          lastCall, lastArgs, kept, startConversation, ctxCancelled, observesCtx,
          callsAfterCancel, scenarios, goroutines, gen, agentInput, successCriteria,
          failureCriteria, lastCriteria, built, applied>>

\* the state of the other specifications, which a single Run never touches
outside == <<scenarios, goroutines, gen, built, applied>>

config == <<agentSet, maxTurns, observesCtx, successCriteria, failureCriteria>>

\* ctx.Err() of a cancelled context
ContextCanceled == ErrorsNew("context canceled")

\* what the completion provider answers to the n-th call of a Run, given ctx
ProviderAnswers(n) ==
    IF ctxCancelled /\ observesCtx
    THEN {CompletionError(ErrorfW("failed to create chat completion: ", ContextCanceled))}
    ELSE LLMResponses(n)

\* what the agent under test answers, given ctx
AgentAnswers ==
    IF ctxCancelled /\ observesCtx
    THEN {AgentReturn(<<>>, ContextCanceled)}
    ELSE AgentReplies

\* the count of calls that returned after the cancel, one call later
AfterCancel == IF ctxCancelled THEN callsAfterCancel + 1 ELSE callsAfterCancel

RunReturn(result, err) == [result |-> result, err |-> err]

NoReturn == RunReturn(ResultLiteral(FALSE), Nil)
NoOut == GenReturn(Nil, Nil, Nil)
NoReply == AgentReturn(<<>>, Nil)
TestingArgs(firstMessage, lastMessage) ==
    [firstMessage |-> firstMessage, lastMessage |-> lastMessage]
NoArgs == TestingArgs(FALSE, FALSE)

\* NewScenario with its options applied; Run has not been entered
InitScenario ==
    /\ agentSet \in BOOLEAN
    /\ maxTurns \in -1..MaxTurnsBound
    /\ conversation = <<>>
    /\ pc = "start"
    /\ iteration = 0
    /\ currentMessage = Nil
    /\ elapsed = 0
    /\ agentDuration = 0
    /\ ret = NoReturn
    /\ lastOut = NoOut
    /\ lastReply = NoReply
    /\ agentCalls = 0
    /\ agentInput = ""
    /\ testingCalls = 0
    /\ lastCall = "none"
    /\ lastArgs = NoArgs
    /\ lastCriteria = Criteria(<<>>, <<>>)
    /\ kept = <<>>
    /\ startConversation = <<>>
    /\ ctxCancelled = FALSE
    /\ callsAfterCancel = 0

\* no concurrent runs
NoConcurrentRuns ==
    /\ scenarios = <<>>
    /\ goroutines = <<>>

\* no GenerateNextMessage call on its own
NoGenCall == gen = <<>>

\* no NewScenario call on its own
NoConstruction ==
    /\ built = DefaultScenario
    /\ applied = <<>>

\* a scenario made without criteria options
NoCriteria ==
    /\ successCriteria = NewScenario(<<>>).successCriteria
    /\ failureCriteria = NewScenario(<<>>).failureCriteria

\* a scenario made with criteria options
SomeCriteria ==
    \E c \in CriteriaChoices :
        LET s == NewScenario(<<WithSuccessCriteria(c.success),
                               WithFailureCriteria(c.failure)>>)
        IN  /\ successCriteria = s.successCriteria
            /\ failureCriteria = s.failureCriteria

\* a scenario whose Run is given a context that nobody cancels
Init ==
    /\ InitScenario
    /\ observesCtx = TRUE
    /\ SomeCriteria
    /\ NoConcurrentRuns
    /\ NoGenCall
    /\ NoConstruction

\* a scenario whose Run is given a context that may be cancelled, with
\* collaborators that observe the context or ignore it
InitCancel ==
    /\ InitScenario
    /\ observesCtx \in BOOLEAN
    /\ NoCriteria
    /\ NoConcurrentRuns
    /\ NoGenCall
    /\ NoConstruction

\* NoAgentReturn as it would be with the message of another exit
NoAgentReturnOtherText ==
    RunReturn(ResultLiteral(FALSE), ErrorsNew("no messages returned from agent"))

\* if s.agent == nil
NoAgentReturn == RunReturn(ResultLiteral(FALSE), ErrorsNew("agent not set"))

\* InitialErrorReturn as it would be with the follow-up call's prefix
InitialErrorReturnNextPrefix(err) ==
    RunReturn(ResultLiteral(FALSE), ErrorfW("failed to generate next message: ", err))

\* InitialErrorReturn as it would be if the error were formatted with %v
InitialErrorReturnNoWrap(err) ==
    RunReturn(ResultLiteral(FALSE),
              ErrorfNoWrap("failed to generate initial message: ", err))

\* the opening call failed
InitialErrorReturn(err) ==
    RunReturn(ResultLiteral(FALSE), ErrorfW("failed to generate initial message: ", err))

\* the opening call returned a Result
InitialResultReturn(initialResult) ==
    RunReturn(initialResult,
              ErrorsNew("initial message generated a result which is unexpected: "
                        \o ToString(initialResult)))

\* AgentErrorReturn as it would be if the error were formatted with %v
AgentErrorReturnNoWrap(err) ==
    RunReturn(ResultLiteral(FALSE), ErrorfNoWrap("failed to run agent: ", err))

\* s.agent.Run failed
AgentErrorReturn(err) ==
    RunReturn(ResultLiteral(FALSE), ErrorfW("failed to run agent: ", err))

\* NoMessagesReturn as it would be if an empty reply were no error
NoMessagesReturnNoError == RunReturn(ResultLiteral(FALSE), Nil)

\* s.agent.Run returned no message
NoMessagesReturn ==
    RunReturn(ResultLiteral(FALSE), ErrorsNew("no messages returned from agent"))

\* NextErrorReturn as it would be if the transcript so far were returned
NextErrorReturnWithConversation(err) ==
    RunReturn([ResultLiteral(FALSE) EXCEPT !.Conversation = conversation],
              ErrorfW("failed to generate next message: ", err))

\* a follow-up call failed
NextErrorReturn(err) ==
    RunReturn(ResultLiteral(FALSE), ErrorfW("failed to generate next message: ", err))

\* VerdictReturn as it would be if the verdict were reported like the
\* opening one, together with an error
VerdictReturnWithError(result, agentDur, total) ==
    RunReturn([result EXCEPT !.AgentDurationNSec = agentDur,
                             !.TotalDurationNSec = total],
              ErrorsNew("unexpected result"))

\* VerdictReturn as it would be if the Result were returned with the
\* durations the testing agent left in it
VerdictReturnKeepsDurations(result, agentDur, total) == RunReturn(result, Nil)

\* a follow-up call returned a Result: stamp the durations and return it
VerdictReturn(result, agentDur, total) ==
    RunReturn([result EXCEPT !.AgentDurationNSec = agentDur,
                             !.TotalDurationNSec = total], Nil)

\* the text of the Result of a run that used up its turns
ExhaustedReasoning(turns) ==
    "The conversation did not end in a failure after " \o ToString(turns) \o " turns."

\* ExhaustedReturn as it would be if using up the turns were an error
ExhaustedReturnAsError(conv, turns, total, agentDur) ==
    RunReturn([ResultLiteral(FALSE) EXCEPT !.Conversation = conv,
                                           !.Reasoning = ExhaustedReasoning(turns),
                                           !.TotalDurationNSec = total,
                                           !.AgentDurationNSec = agentDur],
              ErrorsNew("max turns reached"))

\* the loop ended without a verdict
ExhaustedReturn(conv, turns, total, agentDur) ==
    RunReturn([ResultLiteral(FALSE) EXCEPT !.Conversation = conv,
                                           !.Reasoning = ExhaustedReasoning(turns),
                                           !.TotalDurationNSec = total,
                                           !.AgentDurationNSec = agentDur], Nil)

\* LoopContinues as it would be with an off-by-one loop bound
LoopContinuesOneMore(iter, turns) == iter <= turns

\* LoopContinues as it would be if a negative bound counted by its size
LoopContinuesAbsolute(iter, turns) ==
    iter < (IF turns < 0 THEN 0 - turns ELSE turns)

\* LoopContinues as it would be with a loop bound two turns too far
LoopContinuesTwoMore(iter, turns) == iter < turns + 2

\* for iteration := range s.maxTurns
LoopContinues(iter, turns) == iter < turns

\* LastIteration as it would be if it were told one turn late
LastIterationOneLate(iter, turns) == iter = turns

\* lastIteration := iteration == s.maxTurns-1
LastIteration(iter, turns) == iter = turns - 1

\* the removal of a leading system and then a leading user message
DropLeading(msgs, role) ==
    IF Len(msgs) > 0 /\ msgs[1].Role = role THEN Tail(msgs) ELSE msgs

\* Normalize as it would be if a system message were dropped after the
\* user message too
NormalizeSystemAgain(agentMessages) ==
    DropLeading(DropLeading(DropLeading(agentMessages, MessageRoleSystem),
                            MessageRoleUser),
                MessageRoleSystem)

Normalize(agentMessages) ==
    DropLeading(DropLeading(agentMessages, MessageRoleSystem), MessageRoleUser)

\* Run leaves with the given values
Return(r) ==
    /\ ret' = r
    /\ pc' = "done"

\* LoopHead as it would be if the text of the first turn were sent in every
\* turn (currentMessage never updated)
LoopHeadKeepsMessage(iter, message, total, agentDur) ==
    LET text == IF currentMessage = Nil THEN message ELSE currentMessage
    IN  /\ iteration' = iter
        /\ currentMessage' = text
        /\ IF LoopContinues(iter, maxTurns)
           THEN /\ conversation' = Append(conversation,
                                          Message(MessageRoleUser, text[1]))
                /\ pc' = "agent"
                /\ ret' = ret
           ELSE /\ conversation' = conversation
                /\ Return(ExhaustedReturn(conversation, maxTurns, total, agentDur))

\* LoopHead as it would be if every turn started a new transcript
LoopHeadNewTranscript(iter, message, total, agentDur) ==
    /\ iteration' = iter
    /\ currentMessage' = message
    /\ IF LoopContinues(iter, maxTurns)
       THEN /\ conversation' = <<Message(MessageRoleUser, message[1])>>
            /\ pc' = "agent"
            /\ ret' = ret
       ELSE /\ conversation' = conversation
            /\ Return(ExhaustedReturn(conversation, maxTurns, total, agentDur))

\* the head of the loop, entered with iteration iter and the text to send:
\* either the turn starts (the user message is appended and the agent is
\* called) or the loop is over and Run returns the exhausted Result
LoopHead(iter, message, total, agentDur) ==
    /\ iteration' = iter
    /\ currentMessage' = message
    /\ IF LoopContinues(iter, maxTurns)
       THEN /\ conversation' = Append(conversation, Message(MessageRoleUser, message[1]))
            /\ pc' = "agent"
            /\ ret' = ret
       ELSE /\ conversation' = conversation
            /\ Return(ExhaustedReturn(conversation, maxTurns, total, agentDur))

\* Run entered without an agent
RunNoAgent ==
    /\ pc = "start"
    /\ ~agentSet
    /\ Return(NoAgentReturn)
    /\ UNCHANGED <<config, outside, conversation, iteration, currentMessage, elapsed,
                   agentDuration, lastOut, lastReply, agentCalls, agentInput, testingCalls,
                   lastCall, lastArgs, lastCriteria, kept, startConversation, ctxCancelled,
                   callsAfterCancel>>

\* Run entered with an agent: the opening call of the testing agent returns
OpeningCall ==
    /\ pc = "start"
    /\ agentSet
    /\ \E resp \in ProviderAnswers(testingCalls + 1), d \in CallNSec :
         LET out == GenerateNextMessage(conversation, TRUE, FALSE, resp)
         IN  /\ lastOut' = out
             /\ lastArgs' = TestingArgs(TRUE, FALSE)
             /\ lastCriteria' = Criteria(successCriteria, failureCriteria)
             /\ elapsed' = d
             /\ testingCalls' = testingCalls + 1
             /\ IF out.err # Nil
                THEN /\ Return(InitialErrorReturn(out.err))
                     /\ UNCHANGED <<conversation, iteration, currentMessage>>
                ELSE IF out.result # Nil
                THEN /\ Return(InitialResultReturn(out.result[1]))
                     /\ UNCHANGED <<conversation, iteration, currentMessage>>
                ELSE LoopHead(0, out.msg, d, 0)
    /\ lastCall' = "testing"
    /\ callsAfterCancel' = AfterCancel
    /\ UNCHANGED <<config, outside, agentDuration, lastReply, agentCalls, agentInput, kept,
                   startConversation, ctxCancelled>>

\* AgentCall as it would be if the reply were checked for emptiness after
\* the removal of its leading messages
AgentCallChecksRecorded ==
    /\ pc = "agent"
    /\ \E reply \in AgentAnswers, d \in CallNSec :
         /\ lastReply' = reply
         /\ elapsed' = elapsed + d
         /\ agentCalls' = agentCalls + 1
         /\ agentInput' = currentMessage[1]
         /\ IF reply.err # Nil
            THEN /\ Return(AgentErrorReturn(reply.err))
                 /\ UNCHANGED <<conversation, agentDuration, kept>>
            ELSE IF Len(Normalize(reply.msgs)) = 0
            THEN /\ Return(NoMessagesReturn)
                 /\ UNCHANGED <<conversation, agentDuration, kept>>
            ELSE /\ agentDuration' = agentDuration + d
                 /\ conversation' = conversation \o Normalize(reply.msgs)
                 /\ kept' = Append(kept, Len(Normalize(reply.msgs)))
                 /\ pc' = "testing"
                 /\ ret' = ret
    /\ lastCall' = "agent"
    /\ callsAfterCancel' = AfterCancel
    /\ UNCHANGED <<config, outside, iteration, currentMessage, lastOut, testingCalls,
                   lastArgs, lastCriteria, startConversation, ctxCancelled>>

\* the agent under test returns
AgentCall ==
    /\ pc = "agent"
    /\ \E reply \in AgentAnswers, d \in CallNSec :
         /\ lastReply' = reply
         /\ elapsed' = elapsed + d
         /\ agentCalls' = agentCalls + 1
         /\ agentInput' = currentMessage[1]
         /\ IF reply.err # Nil
            THEN /\ Return(AgentErrorReturn(reply.err))
                 /\ UNCHANGED <<conversation, agentDuration, kept>>
            ELSE IF Len(reply.msgs) = 0
            THEN /\ Return(NoMessagesReturn)
                 /\ UNCHANGED <<conversation, agentDuration, kept>>
            ELSE /\ agentDuration' = agentDuration + d
                 /\ conversation' = conversation \o Normalize(reply.msgs)
                 /\ kept' = Append(kept, Len(Normalize(reply.msgs)))
                 /\ pc' = "testing"
                 /\ ret' = ret
    /\ lastCall' = "agent"
    /\ callsAfterCancel' = AfterCancel
    /\ UNCHANGED <<config, outside, iteration, currentMessage, lastOut, testingCalls,
                   lastArgs, lastCriteria, startConversation, ctxCancelled>>

\* the follow-up call of the testing agent returns
FollowUpCall ==
    /\ pc = "testing"
    /\ \E resp \in ProviderAnswers(testingCalls + 1), d \in CallNSec :
         LET out == GenerateNextMessage(conversation, FALSE,
                                        LastIteration(iteration, maxTurns), resp)
         IN  /\ lastOut' = out
             /\ lastArgs' = TestingArgs(FALSE, LastIteration(iteration, maxTurns))
             /\ lastCriteria' = Criteria(successCriteria, failureCriteria)
             /\ elapsed' = elapsed + d
             /\ testingCalls' = testingCalls + 1
             /\ IF out.err # Nil
                THEN /\ Return(NextErrorReturn(out.err))
                     /\ UNCHANGED <<conversation, iteration, currentMessage>>
                ELSE IF out.result # Nil
                THEN /\ Return(VerdictReturn(out.result[1], agentDuration, elapsed + d))
                     /\ UNCHANGED <<conversation, iteration, currentMessage>>
                ELSE LoopHead(iteration + 1, out.msg, elapsed + d, agentDuration)
    /\ lastCall' = "testing"
    /\ callsAfterCancel' = AfterCancel
    /\ UNCHANGED <<config, outside, agentDuration, lastReply, agentCalls, agentInput, kept,
                   startConversation, ctxCancelled>>

\* RunAgain as it would be if Run began with an empty conversation
RunAgainCleared ==
    /\ pc = "done"
    /\ Len(conversation) <= MaxCarry
    /\ pc' = "start"
    /\ iteration' = 0
    /\ currentMessage' = Nil
    /\ elapsed' = 0
    /\ agentDuration' = 0
    /\ ret' = NoReturn
    /\ lastOut' = NoOut
    /\ lastReply' = NoReply
    /\ agentCalls' = 0
    /\ agentInput' = ""
    /\ testingCalls' = 0
    /\ lastCall' = "none"
    /\ lastArgs' = NoArgs
    /\ lastCriteria' = Criteria(<<>>, <<>>)
    /\ kept' = <<>>
    /\ startConversation' = conversation
    /\ ctxCancelled' = FALSE
    /\ callsAfterCancel' = 0
    /\ conversation' = <<>>
    /\ UNCHANGED <<config, outside>>

\* Run is entered again on the same scenario: s.conversation is kept
RunAgain ==
    /\ pc = "done"
    /\ Len(conversation) <= MaxCarry
    /\ pc' = "start"
    /\ iteration' = 0
    /\ currentMessage' = Nil
    /\ elapsed' = 0
    /\ agentDuration' = 0
    /\ ret' = NoReturn
    /\ lastOut' = NoOut
    /\ lastReply' = NoReply
    /\ agentCalls' = 0
    /\ agentInput' = ""
    /\ testingCalls' = 0
    /\ lastCall' = "none"
    /\ lastArgs' = NoArgs
    /\ lastCriteria' = Criteria(<<>>, <<>>)
    /\ kept' = <<>>
    /\ startConversation' = conversation
    /\ ctxCancelled' = FALSE
    /\ callsAfterCancel' = 0
    /\ UNCHANGED <<config, outside, conversation>>

Next ==
    \/ RunNoAgent
    \/ OpeningCall
    \/ AgentCall
    \/ FollowUpCall
    \/ RunAgain

Spec == Init /\ [][Next]_vars

\* a Run all of whose collaborator calls return
RunProgress ==
    \/ RunNoAgent
    \/ OpeningCall
    \/ AgentCall
    \/ FollowUpCall

SpecReturning == Init /\ [][Next]_vars /\ WF_vars(RunProgress)

\* the caller cancels the ctx of a Run that has not returned
Cancel ==
    /\ pc # "done"
    /\ ~ctxCancelled
    /\ ctxCancelled' = TRUE
    /\ UNCHANGED <<config, outside, conversation, pc, iteration, currentMessage, elapsed,
                   agentDuration, ret, lastOut, lastReply, agentCalls, agentInput, testingCalls,
                   lastCall, lastArgs, lastCriteria, kept, startConversation, callsAfterCancel>>

NextCancel ==
    \/ Next
    \/ Cancel

SpecCancel == InitCancel /\ [][NextCancel]_vars

(***************************************************************************)
(* Runs of distinct scenarios in concurrent goroutines.  A scenario object *)
(* holds maxTurns and conversation; a goroutine holds the locals of the    *)
(* Run it executes and the answers its collaborators gave it so far.       *)
(***************************************************************************)
MaxParTurns == 2

ScenarioIds == {1, 2}

\* the fields of a scenario that Run reads and writes
ScenarioFields(turns, conv) == [maxTurns |-> turns, conversation |-> conv]

\* the locals of a Run
RunLocals(at, iter, message, total, agentDur, r) ==
    [pc |-> at, iteration |-> iter, currentMessage |-> message, elapsed |-> total,
     agentDuration |-> agentDur, ret |-> r]

EnteredLocals == RunLocals("start", 0, Nil, 0, 0, NoReturn)

\* a scenario and the locals of its Run after one step
Stepped(s, l) == [s |-> s, l |-> l]

\* the head of the loop of Run on scenario s
TurnStart(s, l, iter, message, total) ==
    IF LoopContinues(iter, s.maxTurns)
    THEN Stepped([s EXCEPT !.conversation =
                      Append(@, Message(MessageRoleUser, message[1]))],
                 RunLocals("agent", iter, message, total, l.agentDuration, l.ret))
    ELSE Stepped(s, RunLocals("done", iter, message, total, l.agentDuration,
                              ExhaustedReturn(s.conversation, s.maxTurns, total,
                                              l.agentDuration)))

\* Run leaves with the given values
Leave(s, l, total, r) ==
    Stepped(s, [l EXCEPT !.pc = "done", !.elapsed = total, !.ret = r])

\* one collaborator call of the Run on scenario s returns answer after d ns
RunStep(s, l, answer, d) ==
    LET total == l.elapsed + d
        first == GenerateNextMessage(s.conversation, TRUE, FALSE, answer)
        next == GenerateNextMessage(s.conversation, FALSE,
                                    LastIteration(l.iteration, s.maxTurns), answer)
    IN  IF l.pc = "start"
        THEN IF first.err # Nil
             THEN Leave(s, l, total, InitialErrorReturn(first.err))
             ELSE IF first.result # Nil
             THEN Leave(s, l, total, InitialResultReturn(first.result[1]))
             ELSE TurnStart(s, l, 0, first.msg, total)
        ELSE IF l.pc = "agent"
        THEN IF answer.err # Nil
             THEN Leave(s, l, total, AgentErrorReturn(answer.err))
             ELSE IF Len(answer.msgs) = 0
             THEN Leave(s, l, total, NoMessagesReturn)
             ELSE Stepped([s EXCEPT !.conversation = @ \o Normalize(answer.msgs)],
                          [l EXCEPT !.pc = "testing", !.elapsed = total,
                                    !.agentDuration = @ + d])
        ELSE IF next.err # Nil
             THEN Leave(s, l, total, NextErrorReturn(next.err))
             ELSE IF next.result # Nil
             THEN Leave(s, l, total,
                        VerdictReturn(next.result[1], l.agentDuration, total))
             ELSE TurnStart(s, l, l.iteration + 1, next.msg, total)

\* a collaborator answer as a goroutine logs it
Answered(answer, d) == [answer |-> answer, d |-> d]

\* the Run of a scenario that is given the logged answers in their order
RECURSIVE Replay(_, _, _)
Replay(s, l, log) ==
    IF log = <<>> THEN Stepped(s, l)
    ELSE LET after == RunStep(s, l, Head(log).answer, Head(log).d)
         IN  Replay(after.s, after.l, Tail(log))

\* a Run on a new scenario, alone, given the logged answers
RunAlone(turns, log) == Replay(ScenarioFields(turns, <<>>), EnteredLocals, log)

\* a text that only the collaborators of scenario i produce
OwnText(i, text) == "s" \o ToString(i) \o "." \o text

\* the answers of scenario i's completion provider to its n-th call
OwnProviderAnswers(i, n) ==
    {CompletionError(ErrorsNew(OwnText(i, "backend unavailable"))),
     Completion(<<Choice(OwnText(i, UserText(n)), <<>>)>>),
     Completion(<<Choice("", <<FinishTestCall(StringValue("failure"))>>)>>)}

\* the answers of scenario i's agent under test to its n-th call
OwnAgentAnswers(i, n) ==
    LET a == Message(MessageRoleAssistant, OwnText(i, "a" \o ToString(n)))
        usr == Message(MessageRoleUser, OwnText(i, "echo"))
    IN  {AgentReturn(<<>>, Nil),
         AgentReturn(<<a>>, Nil),
         AgentReturn(<<usr, a>>, Nil)}

\* a goroutine: the locals of its Run and the answers it was given
Goroutine(l, log) == [l |-> l, log |-> log]

\* the scenario whose fields the Run of goroutine i reads and writes: its
\* receiver
SharedReceiver(i) == 1

Receiver(i) == i

\* distinct scenarios, each with its own conversation, all entering Run
InitConcurrent ==
    /\ InitScenario
    /\ agentSet
    /\ maxTurns = 0
    /\ observesCtx = TRUE
    /\ scenarios \in [ScenarioIds -> {ScenarioFields(n, <<>>) : n \in 1..MaxParTurns}]
    /\ goroutines = [i \in ScenarioIds |-> Goroutine(EnteredLocals, <<>>)]
    /\ NoGenCall
    /\ NoCriteria
    /\ NoConstruction

\* the call that goroutine i waits for returns answer after d ns
CallReturns(i, answer, d) ==
    LET after == RunStep(scenarios[Receiver(i)], goroutines[i].l, answer, d)
    IN  /\ scenarios' = [scenarios EXCEPT ![Receiver(i)] = after.s]
        /\ goroutines' = [goroutines EXCEPT ![i] =
                             Goroutine(after.l, Append(@.log, Answered(answer, d)))]
        /\ UNCHANGED <<config, gen, built, applied, conversation, pc, iteration, currentMessage, elapsed,
                       agentDuration, ret, lastOut, lastReply, agentCalls, agentInput,
                       testingCalls, lastCall, lastArgs, lastCriteria, kept, startConversation,
                       ctxCancelled, callsAfterCancel>>

ConcurrentOpeningCall(i) ==
    /\ goroutines[i].l.pc = "start"
    /\ \E resp \in OwnProviderAnswers(i, Len(goroutines[i].log) + 1) :
         CallReturns(i, resp, i)

ConcurrentAgentCall(i) ==
    /\ goroutines[i].l.pc = "agent"
    /\ \E reply \in OwnAgentAnswers(i, Len(goroutines[i].log) + 1) :
         CallReturns(i, reply, i)

ConcurrentFollowUpCall(i) ==
    /\ goroutines[i].l.pc = "testing"
    /\ \E resp \in OwnProviderAnswers(i, Len(goroutines[i].log) + 1) :
         CallReturns(i, resp, i)

NextConcurrent ==
    \/ \E i \in ScenarioIds : ConcurrentOpeningCall(i)
    \/ \E i \in ScenarioIds : ConcurrentAgentCall(i)
    \/ \E i \in ScenarioIds : ConcurrentFollowUpCall(i)

SpecConcurrent == InitConcurrent /\ [][NextConcurrent]_vars

(***************************************************************************)
(* One call of testingAgent.GenerateNextMessage on its own.                *)
(***************************************************************************)
\* GenerateNextMessage is about to be called with some arguments
InitGen ==
    /\ InitScenario
    /\ agentSet
    /\ maxTurns = 0
    /\ observesCtx = TRUE
    /\ NoConcurrentRuns
    /\ NoCriteria
    /\ NoConstruction
    /\ gen \in {GenCall(c, f, l, FALSE, Completion(<<>>), NoProviderCall, NoOut, c,
                           NoOpenAIParams) :
                   c \in GenConversations, f \in BOOLEAN, l \in BOOLEAN}

\* the call runs: the provider is called, answers, and the answer is handled
Generate ==
    /\ ~gen.called
    /\ \E resp \in GenResponses :
         gen' = GenCall(gen.conversation, gen.firstMessage, gen.lastMessage, TRUE, resp,
                        CompletionCall(gen.conversation, gen.firstMessage,
                                       gen.lastMessage),
                        GenerateNextMessage(gen.conversation, gen.firstMessage,
                                            gen.lastMessage, resp),
                        ConversationAfterCall(gen.conversation, gen.lastMessage),
                        OpenAIParams(CompletionCall(gen.conversation, gen.firstMessage,
                                                    gen.lastMessage)))
    /\ UNCHANGED <<config, scenarios, goroutines, built, applied, conversation, pc, iteration,
                   currentMessage, elapsed, agentDuration, ret, lastOut, lastReply,
                   agentCalls, agentInput, testingCalls, lastCall, lastArgs, lastCriteria, kept,
                   startConversation, ctxCancelled, callsAfterCancel>>

NextGen == Generate

SpecGen == InitGen /\ [][NextGen]_vars

(***************************************************************************)
(* One call of NewScenario on its own: the options are applied one after   *)
(* the other to the new scenario.                                          *)
(***************************************************************************)
InitOptions ==
    /\ InitScenario
    /\ agentSet
    /\ maxTurns = 0
    /\ observesCtx = TRUE
    /\ NoCriteria
    /\ NoConcurrentRuns
    /\ NoGenCall
    /\ NoConstruction

\* the next option of the call is applied
ApplyNextOption ==
    /\ Len(applied) < MaxOptions
    /\ \E opt \in OptionChoices :
         /\ built' = ApplyOption(opt, built)
         /\ applied' = Append(applied, opt)
    /\ UNCHANGED <<config, scenarios, goroutines, gen, conversation, pc, iteration,
                   currentMessage, elapsed, agentDuration, ret, lastOut, lastReply,
                   agentCalls, agentInput, testingCalls, lastCall, lastArgs,
                   lastCriteria, kept, startConversation, ctxCancelled,
                   callsAfterCancel>>

NextOptions == ApplyNextOption

SpecOptions == InitOptions /\ [][NextOptions]_vars

(***************************************************************************)
(* The exits of Run, told by what the collaborators returned last.         *)
(***************************************************************************)
Done == pc = "done"

NoAgentExit == Done /\ ~agentSet
OpeningFailed == lastCall = "testing" /\ lastArgs.firstMessage /\ lastOut.err # Nil
OpeningVerdict == lastCall = "testing" /\ lastArgs.firstMessage /\ lastOut.result # Nil
AgentFailed == lastCall = "agent" /\ lastReply.err # Nil
AgentEmpty == lastCall = "agent" /\ lastReply.err = Nil /\ Len(lastReply.msgs) = 0
FollowUpFailed == lastCall = "testing" /\ ~lastArgs.firstMessage /\ lastOut.err # Nil
FollowUpVerdict == lastCall = "testing" /\ ~lastArgs.firstMessage /\ lastOut.result # Nil
Exhausted == Done /\ lastCall = "testing" /\ lastOut.msg # Nil

\* the error text begins with prefix and the error wraps cause
Wraps(err, prefix, cause) ==
    /\ err # Nil
    /\ cause # Nil
    /\ Head(err) = prefix \o Head(cause)
    /\ ErrorsIs(err, cause)

(***************************************************************************)
(* C1: whenever Run returns a non-nil error, the Result it returns has     *)
(* Success = false, on every error exit.                                   *)
(***************************************************************************)
C1_ErrorImpliesNotSuccess ==
    (Done /\ ret.err # Nil) => ret.result.Success = FALSE

(***************************************************************************)
(* C2: a verdict returned by a follow-up call in turn i ends Run at once   *)
(* with that Result (durations stamped) and a nil error; no collaborator   *)
(* is called after it, and the Result's conversation is the transcript up  *)
(* to and including turn i's recorded agent reply.                         *)
(***************************************************************************)
C2_VerdictEndsRun ==
    FollowUpVerdict =>
        LET reply == Normalize(lastReply.msgs)
            n == Len(conversation) - Len(reply)
        IN  /\ Done
            /\ ret.err = Nil
            /\ ret.result = [lastOut.result[1] EXCEPT !.AgentDurationNSec = agentDuration,
                                                      !.TotalDurationNSec = elapsed]
            /\ agentCalls = iteration + 1
            /\ testingCalls = iteration + 2
            /\ ret.result.Conversation = conversation
            /\ n >= 1
            /\ SubSeq(conversation, n + 1, Len(conversation)) = reply
            /\ conversation[n] = Message(MessageRoleUser, currentMessage[1])
            /\ (iteration = 0 /\ startConversation = <<>> /\ Len(reply) = 1 =>
                   ret.result.Conversation =
                       <<Message(MessageRoleUser, UserText(1)), reply[1]>>)

\* a verdict in the second turn of a run, one-message reply
C2_Witness ==
    /\ FollowUpVerdict
    /\ Done
    /\ iteration = 1
    /\ ret.result.Success
    /\ Len(ret.result.Conversation) = 4

RECURSIVE SumSeq(_)
SumSeq(q) == IF q = <<>> THEN 0 ELSE Head(q) + SumSeq(Tail(q))

\* text contains "after <turns> turns"
ContainsAfterTurns(text, turns) ==
    \E pre \in {"", "The conversation did not end in a failure "}, suf \in {"", "."} :
        text = pre \o "after " \o ToString(turns) \o " turns" \o suf

(***************************************************************************)
(* C3 as stated: for maxTurns = N >= 1, a run without verdict and without  *)
(* collaborator error returns a conversation of exactly 2N messages and a  *)
(* reasoning containing "after N turns".                                   *)
(***************************************************************************)
C3_Original ==
    (Exhausted /\ maxTurns >= 1) =>
        /\ Len(ret.result.Conversation) = 2 * maxTurns
        /\ ContainsAfterTurns(ret.result.Reasoning, maxTurns)

(***************************************************************************)
(* C3 amended: for maxTurns = N >= 1, a run without verdict and without    *)
(* collaborator error returns the conversation the scenario had when Run   *)
(* was entered followed by N user messages and the recorded (normalized)   *)
(* agent messages of the N turns; that is exactly 2N messages when the     *)
(* scenario's conversation was empty at entry and every reply was recorded *)
(* as exactly one message.  The reasoning contains "after N turns".        *)
(***************************************************************************)
C3_ExhaustedConversationLength ==
    (Exhausted /\ maxTurns >= 1) =>
        /\ Len(kept) = maxTurns
        /\ Len(ret.result.Conversation) =
               Len(startConversation) + maxTurns + SumSeq(kept)
        /\ (startConversation = <<>> /\ (\A i \in 1..Len(kept) : kept[i] = 1) =>
               Len(ret.result.Conversation) = 2 * maxTurns)
        /\ ContainsAfterTurns(ret.result.Reasoning, maxTurns)

\* two turns used up on a fresh scenario, one recorded message per reply
C3_Witness ==
    /\ Exhausted
    /\ maxTurns = 2
    /\ startConversation = <<>>
    /\ kept = <<1, 1>>
    /\ Len(ret.result.Conversation) = 4

(***************************************************************************)
(* C4: when the loop has used up its maxTurns turns without a verdict, Run *)
(* returns a nil error and a Result with Success = false, the reasoning    *)
(* "The conversation did not end in a failure after N turns." and three    *)
(* empty criteria lists.                                                   *)
(***************************************************************************)
C4_ExhaustionIsNotAnError ==
    Exhausted =>
        /\ ret.err = Nil
        /\ ret.result.Success = FALSE
        /\ ret.result.Reasoning =
               "The conversation did not end in a failure after "
                   \o ToString(maxTurns) \o " turns."
        /\ (maxTurns = 2 =>
               ret.result.Reasoning =
                   "The conversation did not end in a failure after 2 turns.")
        /\ ret.result.MetCriteria = <<>>
        /\ ret.result.UnmetCriteria = <<>>
        /\ ret.result.TriggeredFailures = <<>>

\* two turns used up
C4_Witness ==
    /\ Exhausted
    /\ maxTurns = 2
    /\ agentCalls = 2
    /\ testingCalls = 3

(***************************************************************************)
(* C5: without an agent under test Run returns the error "agent not set"   *)
(* and a Result with Success = false and no conversation, before any       *)
(* collaborator is called and without touching the scenario's conversation.*)
(***************************************************************************)
C5_NoAgent ==
    ~agentSet =>
        /\ testingCalls = 0
        /\ agentCalls = 0
        /\ conversation = startConversation
        /\ pc \in {"start", "done"}
        /\ Done =>
              /\ ret.err = <<"agent not set">>
              /\ ret.result.Success = FALSE
              /\ ret.result.Conversation = <<>>

\* Run has returned on a scenario without agent
C5_Witness == NoAgentExit /\ ret.err # Nil

(***************************************************************************)
(* C6: a verdict returned by the opening call is a protocol violation: Run *)
(* returns a non-nil error with an empty Result (no conversation, no       *)
(* reasoning, no criteria, Success = false) and never calls the agent.     *)
(***************************************************************************)
C6_OpeningVerdictEmptyResult ==
    OpeningVerdict =>
        /\ Done
        /\ ret.err # Nil
        /\ ret.result = ResultLiteral(FALSE)
        /\ agentCalls = 0

C8_OpeningError ==
    OpeningFailed =>
        /\ Done
        /\ Wraps(ret.err, "failed to generate initial message: ", lastOut.err)
        /\ ret.result.Success = FALSE
        /\ ret.result.Conversation = <<>>
        /\ agentCalls = 0
        /\ testingCalls = 1
        /\ conversation = startConversation

\* the opening call fails on a scenario that already has a conversation
C8_Witness == OpeningFailed /\ Done /\ startConversation # <<>>

OwnTexts(i) ==
    {OwnText(i, UserText(n)) : n \in 1..(2 * MaxParTurns + 1)}
        \cup {OwnText(i, "a" \o ToString(n)) : n \in 1..(2 * MaxParTurns + 1)}

C12_ConcurrentRunsDoNotInterfere ==
    \A i \in ScenarioIds :
        LET alone == RunAlone(scenarios[i].maxTurns, goroutines[i].log)
        IN  /\ scenarios[i].conversation = alone.s.conversation
            /\ goroutines[i].l = alone.l
            /\ \A k \in 1..Len(scenarios[i].conversation) :
                   scenarios[i].conversation[k].Content \in OwnTexts(i)

\* both runs have returned, after calls that interleaved, one with a
\* verdict and one by using up its turns, each with its own transcript
C12_Witness ==
    /\ \A i \in ScenarioIds : goroutines[i].l.pc = "done"
    /\ goroutines[1].l.ret.err = Nil
    /\ goroutines[1].l.ret.result.Reasoning = "because"
    /\ Len(goroutines[1].l.ret.result.Conversation) = 2
    /\ goroutines[2].l.ret.err = Nil
    /\ goroutines[2].l.ret.result.Reasoning = ExhaustedReasoning(2)
    /\ Len(goroutines[2].l.ret.result.Conversation) = 4
    /\ goroutines[2].l.elapsed = 10

(***************************************************************************)
(* The finish_test call of the answer that a GenerateNextMessage call got. *)
(***************************************************************************)
\* the call has returned: the provider was called and nothing panicked
GenReturned == gen # <<>> /\ gen.called /\ gen.out # GenPanic

\* the answer holds a choice whose first tool call is a function call of
\* finish_test
GenFinishTest ==
    /\ GenReturned
    /\ gen.resp.err = Nil
    /\ Len(gen.resp.Choices) > 0
    /\ Len(gen.resp.Choices[1].ToolCalls) > 0
    /\ gen.resp.Choices[1].ToolCalls[1].Type = ToolTypeFunction
    /\ ~HasNilFunction(gen.resp.Choices[1].ToolCalls[1])
    /\ gen.resp.Choices[1].ToolCalls[1].Name = "finish_test"

GenArgs == gen.resp.Choices[1].ToolCalls[1].Arguments

(***************************************************************************)
(* C13: when GenerateNextMessage returns a nil error, exactly one of the   *)
(* returned text and the returned Result is non-nil; when it returns an    *)
(* error, both are nil.                                                    *)
(***************************************************************************)
C13_ExactlyOneOfTextAndResult ==
    GenReturned =>
        /\ (gen.out.err = Nil => ((gen.out.msg # Nil) # (gen.out.result # Nil)))
        /\ (gen.out.err # Nil => gen.out.msg = Nil /\ gen.out.result = Nil)

\* a call answered with a text next to a tool call that is not finish_test:
\* the text is returned and no Result
C13_Witness ==
    /\ GenReturned
    /\ gen.out.err = Nil
    /\ gen.out.msg = <<UserText(1)>>
    /\ gen.out.result = Nil
    /\ Len(gen.resp.Choices[1].ToolCalls) > 0

\* the tool call's verdict and reasoning are strings and its details a map
GenTypedArgs ==
    /\ GenFinishTest
    /\ GenArgs.verdict.tag = "string"
    /\ GenArgs.reasoning.tag = "string"
    /\ GenArgs.details.tag = "map"

\* a criteria array that holds strings only, or a nil
ArrayAccepted(val) ==
    \/ val.tag \in {"[]string", "nil"}
    \/ val.tag = "[]any" /\ \A k \in 1..Len(val.items) : val.items[k].isString

\* the strings an accepted or missing criteria array stands for
ArrayStrings(val) ==
    [k \in 1..Len(val.items) |-> val.items[k].s]

GenArrays ==
    <<GenArgs.details.met_criteria, GenArgs.details.unmet_criteria,
      GenArgs.details.triggered_failures>>

ArrayKeys == <<"met_criteria", "unmet_criteria", "triggered_failures">>

\* the call is well formed: typed arguments and three accepted arrays
GenWellFormed ==
    /\ GenTypedArgs
    /\ \A k \in 1..3 : ArrayAccepted(GenArrays[k])

ExtractPrefix == "failed to extract finish_test parameters: "

(***************************************************************************)
(* C14: the verdict mapping is total on the verdict strings of a           *)
(* well-formed finish_test call: no verdict string gives an error or a     *)
(* text; "success" gives a Result with Success true; "failure" and every   *)
(* other string give Success false with the reported met, unmet and        *)
(* triggered lists.                                                        *)
(***************************************************************************)
C14_VerdictMappingIsTotal ==
    GenWellFormed =>
        /\ gen.out.err = Nil
        /\ gen.out.msg = Nil
        /\ gen.out.result # Nil
        /\ LET r == gen.out.result[1]
           IN  /\ r.Success = (GenArgs.verdict.s = "success")
               /\ r.Conversation = gen.conversation
               /\ r.Reasoning = GenArgs.reasoning.s
               /\ r.MetCriteria = ArrayStrings(GenArrays[1])
               /\ GenArgs.verdict.s # "success" =>
                      /\ r.UnmetCriteria = ArrayStrings(GenArrays[2])
                      /\ r.TriggeredFailures = ArrayStrings(GenArrays[3])

\* an unrecognized verdict string gave a failed Result with the lists
C14_Witness ==
    /\ GenWellFormed
    /\ GenArgs.verdict.s = "maybe"
    /\ gen.out.err = Nil
    /\ gen.out.result # Nil
    /\ gen.out.result[1].Success = FALSE
    /\ gen.out.result[1].UnmetCriteria = <<"c1">>
    /\ gen.out.result[1].TriggeredFailures = <<"c1">>

(***************************************************************************)
(* C15: in the message list passed to the completion provider, every       *)
(* message without tool calls has its role swapped relative to the         *)
(* assembled transcript (user and assistant exchanged, system and          *)
(* developer unchanged) and every message with tool calls keeps its role.  *)
(***************************************************************************)
C15_RoleInversion ==
    GenReturned =>
        LET assembled == AssembledMessages(gen.conversation, gen.lastMessage)
        IN  /\ Len(gen.sent.messages) = Len(assembled)
            /\ \A k \in 1..Len(assembled) :
                   gen.sent.messages[k] = LoopBody(assembled[k])

(***************************************************************************)
(* C16: the message list passed to the completion provider is the rendered *)
(* system prompt, the greeting, the messages of the conversation in their  *)
(* order, and, if and only if lastMessage is true, the finish_test cue;    *)
(* its length is 2 + len(conversation) + (1 if lastMessage else 0).        *)
(***************************************************************************)
C16_SentMessageList ==
    GenReturned =>
        LET sent == gen.sent.messages
            n == Len(gen.conversation)
        IN  /\ Len(sent) = 2 + n + (IF gen.lastMessage THEN 1 ELSE 0)
            /\ sent[1].Content = RenderedSystemMessage
            /\ sent[2].Content = GreetingText
            /\ \A k \in 1..n :
                   /\ sent[2 + k].Content = gen.conversation[k].Content
                   /\ sent[2 + k].ToolCalls = gen.conversation[k].ToolCalls
            /\ gen.lastMessage => sent[3 + n].Content = testingAgentFinishTestMessage

\* a last call with a conversation of two different messages
C16_Witness ==
    /\ GenReturned
    /\ gen.lastMessage
    /\ Len(gen.conversation) = 2
    /\ gen.conversation[1] # gen.conversation[2]
    /\ Len(gen.sent.messages) = 5
    /\ gen.sent.messages[5].Content = testingAgentFinishTestMessage

(***************************************************************************)
(* C17: the provider is offered exactly one tool, the function tool        *)
(* finish_test, and the tool choice passed to it is "required" if and only *)
(* if lastMessage is true and absent otherwise, whatever firstMessage is.  *)
(***************************************************************************)
C17_OneToolAndToolChoice ==
    GenReturned =>
        /\ Len(gen.sent.tools) = 1
        /\ gen.sent.tools[1].Type = ToolTypeFunction
        /\ gen.sent.tools[1].Name = "finish_test"
        /\ (gen.lastMessage => gen.sent.toolChoice = <<"required">>)
        /\ (~gen.lastMessage => gen.sent.toolChoice = Nil)

\* a first call that is not the last one: no tool choice
C17_Witness ==
    /\ GenReturned
    /\ gen.firstMessage
    /\ ~gen.lastMessage
    /\ gen.sent.toolChoice = Nil
    /\ Len(gen.sent.tools) = 1

C19_MalformedArguments ==
    GenFinishTest /\ ~GenTypedArgs =>
        /\ gen.out.msg = Nil
        /\ gen.out.result = Nil
        /\ Wraps(gen.out.err, ExtractPrefix,
                 ErrorsNew(IF GenArgs.verdict.tag # "string"
                           THEN "verdict is not a string"
                           ELSE IF GenArgs.reasoning.tag # "string"
                           THEN "reasoning is not a string"
                           ELSE "details is not a map"))

\* a finish_test call without reasoning
C19_Witness ==
    /\ GenFinishTest
    /\ GenArgs.verdict.tag = "string"
    /\ GenArgs.reasoning.tag = "missing"
    /\ gen.out.result = Nil
    /\ Wraps(gen.out.err, ExtractPrefix, ErrorsNew("reasoning is not a string"))

(***************************************************************************)
(* C20: an answer of the provider without choices makes                    *)
(* GenerateNextMessage return the error "no choices returned" with a nil   *)
(* text and a nil Result, whatever firstMessage and lastMessage are.       *)
(***************************************************************************)
C20_NoChoices ==
    GenReturned /\ gen.resp.err = Nil /\ Len(gen.resp.Choices) = 0 =>
        gen.out = GenReturn(Nil, Nil, ErrorsNew("no choices returned"))

\* a call that is the first and the last one, answered without choices
C20_Witness ==
    /\ GenReturned
    /\ gen.firstMessage
    /\ gen.lastMessage
    /\ gen.resp = Completion(<<>>)
    /\ gen.out.err = ErrorsNew("no choices returned")

\* the answer holds a choice, and its first one
GenHasChoice ==
    /\ GenReturned
    /\ gen.resp.err = Nil
    /\ Len(gen.resp.Choices) > 0

GenChoice == gen.resp.Choices[1]

(***************************************************************************)
(* C21: when the first choice carries no tool call, an empty content makes *)
(* GenerateNextMessage return the error "no content returned in choice"    *)
(* with a nil text and a nil Result, and a non-empty content is returned   *)
(* verbatim as the text with a nil Result and a nil error; lastMessage     *)
(* makes no difference.                                                    *)
(***************************************************************************)
C21_ChoiceWithoutToolCall ==
    GenHasChoice /\ Len(GenChoice.ToolCalls) = 0 =>
        IF GenChoice.Content = ""
        THEN gen.out = GenReturn(Nil, Nil, ErrorsNew("no content returned in choice"))
        ELSE gen.out = GenReturn(<<GenChoice.Content>>, Nil, Nil)

\* the last call of a run answered with an empty text and no tool call
C21_Witness ==
    /\ GenHasChoice
    /\ gen.lastMessage
    /\ Len(GenChoice.ToolCalls) = 0
    /\ GenChoice.Content = ""
    /\ gen.out.msg = Nil
    /\ gen.out.err = ErrorsNew("no content returned in choice")

(***************************************************************************)
(* C22: when the first tool call of the first choice is not of function    *)
(* type, GenerateNextMessage returns the error "tool call is not a         *)
(* function" with a nil text and a nil Result, whatever the content of the *)
(* choice and the name of the tool call.                                   *)
(***************************************************************************)
C22_NonFunctionToolCall ==
    /\ GenHasChoice
    /\ Len(GenChoice.ToolCalls) > 0
    /\ GenChoice.ToolCalls[1].Type # ToolTypeFunction
    => gen.out = GenReturn(Nil, Nil, ErrorsNew("tool call is not a function"))

\* a tool call of another type, named other than finish_test, next to a text
C22_Witness ==
    /\ GenHasChoice
    /\ Len(GenChoice.ToolCalls) > 0
    /\ GenChoice.ToolCalls[1].Type = "custom"
    /\ ~HasNilFunction(GenChoice.ToolCalls[1])
    /\ GenChoice.ToolCalls[1].Name = "other"
    /\ GenChoice.Content = "text"
    /\ gen.out.err = ErrorsNew("tool call is not a function")

(***************************************************************************)
(* C23: the messages recorded for an agent reply are the reply without its *)
(* first message if that one has role system, and then without the new     *)
(* first message if that one has role user; nothing else is removed or     *)
(* reordered, so at most two messages go, from the head only, and a user   *)
(* message followed by a system message loses the user message only.       *)
(***************************************************************************)
RecordedOf(reply) ==
    LET afterSystem == IF reply[1].Role = MessageRoleSystem
                       THEN SubSeq(reply, 2, Len(reply)) ELSE reply
    IN  IF Len(afterSystem) > 0 /\ afterSystem[1].Role = MessageRoleUser
        THEN SubSeq(afterSystem, 2, Len(afterSystem)) ELSE afterSystem

C23_ReplyNormalization ==
    [][pc = "agent" /\ pc' = "testing" =>
          LET reply == lastReply'.msgs
              recorded == SubSeq(conversation', Len(conversation) + 1,
                                 Len(conversation'))
          IN  /\ SubSeq(conversation', 1, Len(conversation)) = conversation
              /\ recorded = RecordedOf(reply)
              /\ Len(reply) - Len(recorded) \in 0..2
              /\ recorded = SubSeq(reply, Len(reply) - Len(recorded) + 1, Len(reply))]_vars

\* the agent replied with a user message followed by a system message: the
\* system message is what was recorded
C23_Witness ==
    /\ pc = "testing"
    /\ lastCall = "agent"
    /\ Len(lastReply.msgs) = 2
    /\ lastReply.msgs[1].Role = MessageRoleUser
    /\ lastReply.msgs[2].Role = MessageRoleSystem
    /\ conversation[Len(conversation)] = lastReply.msgs[2]
    /\ conversation[Len(conversation) - 1].Content = currentMessage[1]

(***************************************************************************)
(* C24: the testing agent is called with firstMessage true and lastMessage *)
(* false on the first call of a run and with firstMessage false on every   *)
(* later call; lastMessage is true on the follow-up call of turn i exactly *)
(* when i = maxTurns - 1, that is on the call number maxTurns + 1 and on   *)
(* no other.                                                               *)
(***************************************************************************)
C24_FirstAndLastFlags ==
    testingCalls >= 1 /\ lastCall = "testing" =>
        /\ lastArgs.firstMessage = (testingCalls = 1)
        /\ (testingCalls = 1 => ~lastArgs.lastMessage)
        /\ (testingCalls > 1 =>
               /\ testingCalls = agentCalls + 1
               /\ lastArgs.lastMessage = (agentCalls - 1 = maxTurns - 1))
        /\ lastArgs.lastMessage = (testingCalls > 1 /\ testingCalls = maxTurns + 1)

\* the follow-up call of the last of two turns
C24_Witness ==
    /\ lastCall = "testing"
    /\ maxTurns = 2
    /\ testingCalls = 3
    /\ lastArgs = TestingArgs(FALSE, TRUE)

\* the larger of n and 0
AtLeastZero(n) == IF n > 0 THEN n ELSE 0

(***************************************************************************)
(* C27 as stated: for every maxTurns <= 0, a Run with an agent set makes   *)
(* the opening testing-agent call, never invokes the agent under test,     *)
(* appends no message, and returns the exhausted Result (Success false,    *)
(* maxTurns in the reasoning) with a nil error.                            *)
(***************************************************************************)
C27_Original ==
    Done /\ agentSet /\ maxTurns <= 0 =>
        /\ testingCalls = 1
        /\ agentCalls = 0
        /\ conversation = startConversation
        /\ ret = ExhaustedReturn(conversation, maxTurns, elapsed, 0)

(***************************************************************************)
(* C27: for every maxTurns <= 0, a Run with an agent set makes the opening *)
(* testing-agent call and no other call, never invokes the agent under     *)
(* test and appends no message; when the opening call returns a message,   *)
(* Run returns the exhausted Result (Success false, maxTurns in the        *)
(* reasoning) with a nil error; when it returns an error or a verdict, Run *)
(* returns an error.                                                       *)
(***************************************************************************)
C27_NonPositiveMaxTurns ==
    Done /\ agentSet /\ maxTurns <= 0 =>
        /\ testingCalls = 1
        /\ agentCalls = 0
        /\ lastArgs = TestingArgs(TRUE, FALSE)
        /\ conversation = startConversation
        /\ IF lastOut.err = Nil /\ lastOut.result = Nil
           THEN /\ ret.err = Nil
                /\ ret.result.Success = FALSE
                /\ ret.result.Reasoning =
                       "The conversation did not end in a failure after "
                           \o ToString(maxTurns) \o " turns."
                /\ ret.result.Conversation = startConversation
           ELSE ret.err # Nil

\* a Run with maxTurns = -1 whose opening call returned a message
C27_Witness ==
    /\ Done
    /\ agentSet
    /\ maxTurns = -1
    /\ lastOut.msg # Nil
    /\ agentCalls = 0
    /\ ret.err = Nil
    /\ ret.result.Reasoning = "The conversation did not end in a failure after -1 turns."

(***************************************************************************)
(* C28: within one Run the collaborator calls alternate, starting with the *)
(* testing agent, one at a time; the agent under test is invoked at most   *)
(* max(maxTurns, 0) times and the testing agent at most max(maxTurns, 0)   *)
(* + 1 times; and a Run all of whose collaborator calls return terminates. *)
(***************************************************************************)
C28_AlternationAndTermination ==
    /\ [](/\ agentCalls <= AtLeastZero(maxTurns)
          /\ testingCalls <= AtLeastZero(maxTurns) + 1
          /\ (lastCall = "none" => testingCalls = 0 /\ agentCalls = 0)
          /\ (lastCall = "testing" => testingCalls = agentCalls + 1)
          /\ (lastCall = "agent" => agentCalls >= 1 /\ testingCalls = agentCalls)
          /\ (pc = "agent" => lastCall = "testing")
          /\ (pc = "testing" => lastCall = "agent"))
    /\ [][/\ agentCalls' \in {0, agentCalls, agentCalls + 1}
          /\ testingCalls' \in {0, testingCalls, testingCalls + 1}
          /\ ~(agentCalls' = agentCalls + 1 /\ testingCalls' = testingCalls + 1)]_vars
    /\ (pc = "start" ~> Done)

\* a Run of two turns that made all its calls and returned
C28_Witness ==
    /\ Done
    /\ maxTurns = 2
    /\ agentCalls = 2
    /\ testingCalls = 3
    /\ lastCall = "testing"

(***************************************************************************)
(* C29: in every turn the text given to the agent under test is the text   *)
(* that the testing-agent call just before returned, and that text is the  *)
(* content of the user message appended to the conversation before the     *)
(* agent is invoked.                                                       *)
(***************************************************************************)
C29_AgentGetsTheTestingAgentsText ==
    [][pc = "agent" /\ agentCalls' = agentCalls + 1 =>
          /\ lastOut.msg # Nil
          /\ agentInput' = lastOut.msg[1]
          /\ Len(conversation) >= 1
          /\ conversation[Len(conversation)] =
                 Message(MessageRoleUser, agentInput')]_vars

\* the agent was invoked in the second turn with the text of the first
\* follow-up call
C29_Witness ==
    /\ lastCall = "agent"
    /\ agentCalls = 2
    /\ testingCalls = 2
    /\ agentInput = UserText(2)
    /\ lastOut.msg = <<UserText(2)>>

(***************************************************************************)
(* C30: the conversation is append-only during a run: every step leaves    *)
(* the previous conversation as a prefix; a testing-agent call that starts *)
(* a turn appends one user message, an agent call appends that turn's      *)
(* normalized messages, and a follow-up call is handed the whole           *)
(* transcript, which ends with the turn's agent messages.                  *)
(***************************************************************************)
C30_AppendOnlyConversation ==
    [][/\ Len(conversation') >= Len(conversation)
       /\ SubSeq(conversation', 1, Len(conversation)) = conversation
       /\ (pc \in {"start", "testing"} /\ pc' = "agent" =>
              conversation' = Append(conversation,
                                     Message(MessageRoleUser, lastOut'.msg[1])))
       /\ (pc \in {"start", "testing"} /\ pc' # "agent" =>
              conversation' = conversation)
       /\ (pc = "agent" /\ pc' = "testing" =>
              conversation' = conversation \o RecordedOf(lastReply'.msgs))
       /\ (pc = "agent" /\ pc' # "testing" => conversation' = conversation)
       /\ (pc = "testing" /\ lastOut'.result # Nil =>
              /\ lastOut'.result[1].Conversation = conversation
              /\ SubSeq(conversation, Len(conversation) - kept[Len(kept)] + 1,
                        Len(conversation)) = RecordedOf(lastReply.msgs))]_vars

\* a verdict in the second turn of a run over a transcript of two user
\* messages and the agent messages of both turns
C30_Witness ==
    /\ FollowUpVerdict
    /\ agentCalls = 2
    /\ Len(kept) = 2
    /\ kept[1] = 2
    /\ Len(conversation) = Len(startConversation) + 2 + kept[1] + kept[2]
    /\ ret.result.Conversation = conversation

(***************************************************************************)
(* The field an option sets, and the options of a call that set it.        *)
(***************************************************************************)
OptionKinds ==
    {"WithDescription", "WithStrategy", "WithMaxTurns", "WithAgent",
     "WithTestingAgent", "WithSuccessCriteria", "WithFailureCriteria"}

FieldSetBy(kind, s) ==
    IF kind = "WithDescription" THEN s.description
    ELSE IF kind = "WithStrategy" THEN s.strategy
    ELSE IF kind = "WithMaxTurns" THEN s.maxTurns
    ELSE IF kind = "WithAgent" THEN s.agent
    ELSE IF kind = "WithTestingAgent" THEN s.testingAgent
    ELSE IF kind = "WithSuccessCriteria" THEN s.successCriteria
    ELSE s.failureCriteria

\* the places of the options of the given kind
PlacesOf(kind, opts) == {k \in 1..Len(opts) : opts[k].kind = kind}

LastPlace(places) == CHOOSE k \in places : \A j \in places : j <= k

\* the orders the options could have been given in
Reorderings(n) == {q \in [1..n -> 1..n] : \A a, b \in 1..n : q[a] = q[b] => a = b}

(***************************************************************************)
(* C25: options are order-independent across distinct fields and the last  *)
(* write wins per field: every field holds the argument of the last option *)
(* given for it (its default if there is none; a criteria list replaces    *)
(* the earlier one, it is not appended to it), and options that set        *)
(* different fields give the same scenario in every order.                 *)
(***************************************************************************)
C25_OptionsOrderAndLastWrite ==
    /\ built = NewScenario(applied)
    /\ \A kind \in OptionKinds :
           FieldSetBy(kind, built) =
               IF PlacesOf(kind, applied) = {}
               THEN FieldSetBy(kind, DefaultScenario)
               ELSE applied[LastPlace(PlacesOf(kind, applied))].arg
    /\ (\A a, b \in 1..Len(applied) : applied[a].kind = applied[b].kind => a = b) =>
           \A q \in Reorderings(Len(applied)) :
               NewScenario([k \in 1..Len(applied) |-> applied[q[k]]]) = built

\* two criteria lists were given for the same field, and the later one,
\* which is shorter, is the one kept
C25_Witness ==
    /\ Len(applied) = 3
    /\ applied[1] = WithSuccessCriteria(<<"a", "a", "b">>)
    /\ applied[2].kind = "WithMaxTurns"
    /\ applied[3] = WithSuccessCriteria(<<"", "b">>)
    /\ built.successCriteria = <<"", "b">>
    /\ built.maxTurns = applied[2].arg

(***************************************************************************)
(* C26: the criteria lists are kept verbatim: WithSuccessCriteria and      *)
(* WithFailureCriteria store the given sequence with its order, its        *)
(* duplicates and its empty strings, and every testing-agent call of a run *)
(* is given exactly the stored sequences.                                  *)
(***************************************************************************)
C26_CriteriaVerbatim ==
    /\ \A c \in CriteriaLists :
           /\ NewScenario(<<WithSuccessCriteria(c)>>).successCriteria = c
           /\ NewScenario(<<WithFailureCriteria(c)>>).failureCriteria = c
    /\ \E c \in CriteriaChoices :
           /\ successCriteria = c.success
           /\ failureCriteria = c.failure
    /\ testingCalls >= 1 =>
           lastCriteria = Criteria(successCriteria, failureCriteria)

\* the third testing-agent call of a run is given the lists with their
\* duplicates and empty strings
C26_Witness ==
    /\ testingCalls = 3
    /\ lastCall = "testing"
    /\ successCriteria = <<"a", "a", "b">>
    /\ failureCriteria = <<"", "f", "f">>
    /\ lastCriteria = Criteria(<<"a", "a", "b">>, <<"", "f", "f">>)

(***************************************************************************)
(* C33: a well-formed function call of finish_test as the first tool call  *)
(* of the first choice takes precedence over the choice's text: whether    *)
(* the text is empty or not, a verdict Result is returned, and no text and *)
(* no error with it.                                                       *)
(***************************************************************************)
C33_ToolCallBeforeText ==
    GenWellFormed =>
        /\ gen.out.result # Nil
        /\ gen.out.msg = Nil
        /\ gen.out.err = Nil
        /\ gen.out = GenerateNextMessage(gen.conversation, gen.firstMessage, gen.lastMessage,
                         Completion(<<Choice("", GenChoice.ToolCalls)>>))

\* the choice held a text next to the finish_test call, and the text is not
\* what came back
C33_Witness ==
    /\ GenWellFormed
    /\ GenChoice.Content = "text"
    /\ gen.out.msg = Nil
    /\ gen.out.result # Nil
    /\ gen.out.result[1].Success

\* the first tool call is a function call that is not named finish_test
GenOtherFunction ==
    /\ GenReturned
    /\ GenHasChoice
    /\ Len(GenChoice.ToolCalls) > 0
    /\ GenChoice.ToolCalls[1].Type = ToolTypeFunction
    /\ ~HasNilFunction(GenChoice.ToolCalls[1])
    /\ GenChoice.ToolCalls[1].Name # "finish_test"

(***************************************************************************)
(* C34: a first tool call of function type that is named something other   *)
(* than finish_test is ignored: a non-empty text of the choice is returned *)
(* as the next message, an empty one gives the error "no content returned  *)
(* in choice", and no Result is returned.                                  *)
(***************************************************************************)
C34_OtherFunctionFallsThrough ==
    GenOtherFunction =>
        /\ gen.out.result = Nil
        /\ GenChoice.Content # "" =>
               gen.out.msg = <<GenChoice.Content>> /\ gen.out.err = Nil
        /\ GenChoice.Content = "" =>
               gen.out.msg = Nil /\ gen.out.err = <<"no content returned in choice">>

\* a call of another function came without a text, though its arguments
\* would make a well-formed verdict
C34_Witness ==
    /\ GenOtherFunction
    /\ GenChoice.Content = ""
    /\ GenChoice.ToolCalls[1].Arguments = FinishArgs(StringValue("success"))
    /\ gen.out.err = <<"no content returned in choice">>

(***************************************************************************)
(* C35: the Result of a "success" verdict carries the reported met         *)
(* criteria only, its unmet criteria and triggered failures are empty      *)
(* whatever the arguments list; the Result of every other verdict carries  *)
(* the three reported lists unchanged and in order.                        *)
(***************************************************************************)
C35_SuccessCarriesMetOnly ==
    (GenWellFormed /\ gen.out.result # Nil) =>
        LET r == gen.out.result[1]
        IN  /\ r.MetCriteria = ArrayStrings(GenArrays[1])
            /\ GenArgs.verdict.s = "success" =>
                   r.UnmetCriteria = <<>> /\ r.TriggeredFailures = <<>>
            /\ GenArgs.verdict.s # "success" =>
                   /\ r.UnmetCriteria = ArrayStrings(GenArrays[2])
                   /\ r.TriggeredFailures = ArrayStrings(GenArrays[3])

\* a "success" verdict listed an unmet criterion and a triggered failure,
\* and the Result holds neither
C35_Witness ==
    /\ GenWellFormed
    /\ GenArgs.verdict.s = "success"
    /\ ArrayStrings(GenArrays[2]) = <<"c2">>
    /\ ArrayStrings(GenArrays[3]) = <<"f1">>
    /\ gen.out.result # Nil
    /\ gen.out.result[1].MetCriteria = <<"c1">>
    /\ gen.out.result[1].UnmetCriteria = <<>>
    /\ gen.out.result[1].TriggeredFailures = <<>>

C31_ConversationCarriedOver ==
    /\ [](/\ Len(conversation) >= Len(startConversation)
          /\ SubSeq(conversation, 1, Len(startConversation)) = startConversation
          /\ (Done /\ agentSet /\ ret.err = Nil) =>
                 /\ FollowUpVerdict \/ Exhausted
                 /\ ret.result.Conversation = conversation
                 /\ Len(ret.result.Conversation) =
                        Len(startConversation) + agentCalls + SumSeq(kept)
          /\ (Exhausted /\ maxTurns >= 1 /\ startConversation # <<>>
                  /\ \A i \in 1..Len(kept) : kept[i] = 1) =>
                 Len(ret.result.Conversation) > 2 * maxTurns)
    /\ [][/\ (pc = "done" /\ pc' = "start") =>
                 conversation' = conversation /\ startConversation' = conversation
          /\ (pc = "start" /\ agentSet /\ pc' # "start") =>
                 /\ conversation = startConversation
                 /\ lastOut'.result # Nil =>
                        lastOut'.result[1].Conversation = startConversation
                 /\ pc' = "agent" =>
                        conversation' = Append(startConversation,
                                               Message(MessageRoleUser, lastOut'.msg[1]))]_vars

\* a second run of one turn on a scenario that kept one message of its
\* first run: the Result holds three messages, the kept one first
C31_Witness ==
    /\ Exhausted
    /\ maxTurns = 1
    /\ Len(startConversation) = 1
    /\ kept = <<1>>
    /\ Len(ret.result.Conversation) = 3
    /\ ret.result.Conversation[1] = startConversation[1]
    /\ ret.result.Conversation[2].Role = MessageRoleUser

\* the durations a testing agent may leave in the Result it returns
LeftDurations == 0..2

(***************************************************************************)
(* C32: in every Result that Run returns with a nil error (a verdict or    *)
(* used-up turns) the agent duration is the sum of the times of the run's  *)
(* agent steps only, the time of the testing-agent calls being left out,   *)
(* and it is never greater than the total duration; the durations that the *)
(* testing agent left in a verdict Result are overwritten.                 *)
(***************************************************************************)
C32_AgentDurationIsAgentTimeOnly ==
    /\ []((Done /\ agentSet /\ ret.err = Nil) =>
              /\ ret.result.AgentDurationNSec = agentDuration
              /\ ret.result.TotalDurationNSec = elapsed
              /\ ret.result.AgentDurationNSec <= ret.result.TotalDurationNSec
              /\ ret.result.AgentDurationNSec >= agentCalls
              /\ ret.result.AgentDurationNSec <= agentCalls * MaxCallNSec
              /\ ret.result.TotalDurationNSec - ret.result.AgentDurationNSec >= testingCalls
              /\ FollowUpVerdict =>
                     \A a, t \in LeftDurations :
                         VerdictReturn([lastOut.result[1] EXCEPT !.AgentDurationNSec = a,
                                                                 !.TotalDurationNSec = t],
                                       agentDuration, elapsed) = ret)
    /\ [][/\ (pc = "agent" /\ pc' = "testing") =>
                 agentDuration' - agentDuration = elapsed' - elapsed
          /\ (pc \in {"start", "testing"} /\ agentSet /\ pc' # "start") =>
                 agentDuration' = agentDuration /\ elapsed' > elapsed
          /\ (pc = "done" /\ pc' = "start") => agentDuration' = 0 /\ elapsed' = 0]_vars

\* a verdict after two agent steps and three testing-agent calls: two of
\* the five units of time are the agent's
C32_Witness ==
    /\ FollowUpVerdict
    /\ Done
    /\ ret.err = Nil
    /\ agentCalls = 2
    /\ testingCalls = 3
    /\ ret.result.AgentDurationNSec = 2
    /\ ret.result.TotalDurationNSec = 5
    /\ lastOut.result[1].AgentDurationNSec = 0

\* the replies of which the removal of the leading messages leaves nothing
ZeroRecordedReplies ==
    LET sys == Message(MessageRoleSystem, "prompt")
        usr == Message(MessageRoleUser, "echo")
    IN  {<<sys>>, <<usr>>, <<sys, usr>>}

(***************************************************************************)
(* C37: the reply of the agent is checked for emptiness before its leading *)
(* messages are removed, and not again after.  A reply that is not empty   *)
(* and of which nothing is left (a lone system message, a lone user        *)
(* message, a system message followed by a user message) raises no error:  *)
(* the turn has recorded the user message only and the run goes on to the  *)
(* follow-up testing-agent call.                                           *)
(***************************************************************************)
C37_EmptyCheckBeforeNormalization ==
    [][pc = "agent" =>
          LET reply == lastReply'
          IN  /\ \A msgs \in ZeroRecordedReplies :
                     Normalize(msgs) = <<>> /\ AgentReturn(msgs, Nil) \in AgentReplies
              /\ (reply.err = Nil /\ Len(reply.msgs) = 0) =>
                     pc' = "done" /\ ret'.err = <<"no messages returned from agent">>
              /\ (reply.err = Nil /\ Len(reply.msgs) > 0
                      /\ RecordedOf(reply.msgs) = <<>>) =>
                     /\ reply.msgs \in ZeroRecordedReplies
                     /\ pc' = "testing"
                     /\ ret' = NoReturn
                     /\ conversation' = conversation
                     /\ conversation[Len(conversation)] =
                            Message(MessageRoleUser, currentMessage[1])]_vars

\* the agent replied with a system message followed by a user message and
\* the run is at the follow-up call, the turn having recorded one message
C37_Witness ==
    /\ pc = "testing"
    /\ lastCall = "agent"
    /\ Len(lastReply.msgs) = 2
    /\ lastReply.msgs[1].Role = MessageRoleSystem
    /\ lastReply.msgs[2].Role = MessageRoleUser
    /\ kept = <<0>>
    /\ conversation = Append(startConversation, Message(MessageRoleUser, currentMessage[1]))
    /\ ret = NoReturn

(***************************************************************************)
(* C38: for every answer the completion provider gives with a nil error,   *)
(* a nil response and a first tool call of function type without its       *)
(* function among them, GenerateNextMessage returns a message, a Result    *)
(* or an error: the call never panics.                                     *)
(***************************************************************************)
C38_NeverCrashes ==
    (gen # <<>> /\ gen.called /\ gen.resp.err = Nil) =>
        /\ gen.out # GenPanic
        /\ gen.out.msg # Nil \/ gen.out.result # Nil \/ gen.out.err # Nil

(***************************************************************************)
(* C39: with the OpenAI completion provider, the tool choice "required"    *)
(* that the testing agent passes on the last turn is in the request sent   *)
(* to the backend, and when the testing agent passes none the request      *)
(* forces no tool choice.                                                  *)
(***************************************************************************)
C39_ToolChoiceCarriedIntoRequest ==
    (gen # <<>> /\ gen.called) =>
        /\ gen.sent.toolChoice = (IF gen.lastMessage THEN <<"required">> ELSE Nil)
        /\ gen.request.ToolChoice = gen.sent.toolChoice

====
